---- MODULE Spec2Model ----
(***************************************************************************)
(* File lifecycle of the storage service: FilesController (upload,         *)
(* download, delete) sequencing FilesService (Hasura metadata store) and   *)
(* MinioService (object store) calls.  Every await of the controller is    *)
(* one step of a request task; the store call and its answer happen in     *)
(* that step.  A store call either takes effect and answers, answers       *)
(* "no visible row" (absent, or hidden by the row-level policy of the      *)
(* metadata store), or fails without effect.                               *)
(***************************************************************************)
EXTENDS Integers, Sequences, FiniteSets, TLC

\* ------------------------------------------------------------------ bounds
\* concurrent request tasks
NumReq == 2
\* longest uploaded payload, in bytes
MaxLen == 2

\* ------------------------------------------------------------------ values
Req == 1 .. NumReq

\* JavaScript undefined / SQL NULL of a string-valued field
Undefined == "undefined"
\* an optional value: <<>> is NULL / undefined, <<v>> is v
None == << >>
Some(v) == << v >>
IsSome(o) == o # None
Val(o) == o[1]

DefaultBucketName == "default"
BucketNames == {DefaultBucketName, "media"}
Mimes == {"text/plain", "image/png"}
Names == {"a.txt"}
Bytes == {0}

RECURSIVE SeqsUpTo(_, _)
SeqsUpTo(S, n) ==
  IF n = 0 THEN { << >> }
  ELSE LET shorter == SeqsUpTo(S, n - 1)
       IN shorter \cup { Append(s, b) : s \in { t \in shorter : Len(t) = n - 1 }, b \in S }

Payloads == SeqsUpTo(Bytes, MaxLen)

\* the multipart file multer hands to the controller; size is the buffer length
Files == [ originalname : Names, buffer : Payloads, mimetype : Mimes ]
size(file) == Len(file.buffer)

\* the identities AuthGuard attaches to a request
Identities ==
  { [ hasuraUserId |-> Undefined, hasuraRoles |-> << "anonymous" >> ],
    [ hasuraUserId |-> "u1", hasuraRoles |-> << "user" >> ] }

\* gen_random_uuid() handing out one id over and over
Uuid_repeats(n) == << "uuid", 1 >>

\* the n-th id gen_random_uuid() hands out, and the absence of an id
Uuid(n) == << "uuid", n >>
NoKey == << >>

\* integrity token the object store computes for a payload
ETag(data) == << "md5", data >>

VARIABLES
  buckets,       \* storage.buckets rows of the metadata store
  files,         \* storage.files rows of the metadata store
  nextId,        \* next id gen_random_uuid() hands out
  minioBuckets,  \* buckets that exist in the object store
  objects,       \* objects of the object store
  articles,      \* the articles ArticlesService keeps in memory
  req            \* the request tasks

vars == << buckets, files, nextId, minioBuckets, objects, articles, req >>

\* ------------------------------------------------------- metadata store rows
\* a storage.buckets row; the size bounds and the MIME list are nullable
BucketRow(name, min, max, allowed) ==
  [ id |-> << "bucket", name >>, name |-> name,
    min_upload_size |-> min, max_upload_size |-> max,
    allowed_mime_types |-> allowed,
    download_expiration |-> None, presigned_urls_enabled |-> TRUE ]

\* the policies a bucket row is provisioned with
MinBounds == { None, Some(1) }
MaxBounds == { None, Some(0), Some(1) }
MimeLists == { None, Some({}), Some({"text/plain"}) }

BucketTables ==
  { {BucketRow(DefaultBucketName, mn, mx, al)} \cup more :
      mn \in MinBounds, mx \in MaxBounds, al \in MimeLists,
      more \in { {}, {BucketRow("media", None, None, None)} } }

\* JavaScript truthiness of an optional number: null, undefined and 0 are falsy
TruthyNum(o) == IsSome(o) /\ Val(o) # 0

\* ---------------------------------------------------- AuthGuard's inputs
\* the payload of a bearer token: its hasura claims namespace, if it has one,
\* with x-hasura-user-id and x-hasura-allowed-roles (Undefined, << >>: unset)
HasuraClaims ==
  { None,
    Some([ userId |-> "u1", roles |-> << "user", "editor" >> ]),
    Some([ userId |-> Undefined, roles |-> << >> ]) }

\* a bearer token: signed with the service's secret or not, expired or not
BearerTokens == [ signed : BOOLEAN, expired : BOOLEAN, claims : HasuraClaims ]
NoToken == [ signed |-> FALSE, expired |-> FALSE, claims |-> None ]

\* the authorization header of a request: none, another scheme, or a bearer token
Headers ==
  { [ scheme |-> sch, token |-> NoToken ] : sch \in { "none", "Basic" } }
  \cup { [ scheme |-> "Bearer", token |-> t ] : t \in BearerTokens }

\* what the identity service answers a session introspection: nothing
\* (unreachable), or a status (ok: 2xx) with a body that parses (to an object
\* with or without X-Hasura-User-Id and X-Hasura-Role) or does not (<< >>)
SessionBodies ==
  { None } \cup { Some([ userId |-> u, role |-> ro ]) :
                    u \in { Undefined, "u2" }, ro \in { Undefined, "user" } }
RemoteAnswers ==
  { [ reachable |-> FALSE, ok |-> FALSE, body |-> None ] }
  \cup [ reachable : { TRUE }, ok : BOOLEAN, body : SessionBodies ]

\* the settings the providers read, and the environments (the settings that
\* are defined) a process is started in
Settings ==
  { "MINIO_ENDPOINT", "MINIO_ACCESS_KEY", "MINIO_SECRET_KEY",
    "MINIO_DEFAULT_BUCKET_NAME", "HASURA_GRAPHQL_ENDPOINT",
    "HASURA_GRAPHQL_ADMIN_SECRET", "HASURA_GRAPHQL_JWT_SECRET",
    "BETTER_AUTH_API_URL" }
Environments == SUBSET Settings

\* NestFactory.create resolves, and the process listens, when no provider's
\* constructor throws: MinioService (its default bucket name has a fallback),
\* FilesService, FilesController; AuthGuard's constructor only logs
bootstrap(env) ==
  LET MinioService == { "MINIO_ENDPOINT", "MINIO_ACCESS_KEY", "MINIO_SECRET_KEY" } \subseteq env
      FilesService == { "HASURA_GRAPHQL_ENDPOINT", "HASURA_GRAPHQL_ADMIN_SECRET" } \subseteq env
      FilesController == "MINIO_DEFAULT_BUCKET_NAME" \in env
      AuthGuard == TRUE
  IN MinioService /\ FilesService /\ FilesController /\ AuthGuard

\* a request AuthGuard has not seen
NoGuard ==
  [ pc |-> "none", headers |-> [ scheme |-> "none", token |-> NoToken ],
    hasuraJwtSecret |-> FALSE, betterAuthApiUrl |-> FALSE,
    tried |-> << >>, answer |-> None, env |-> { } ]

\* ------------------------------------------------------------ request tasks
IdleReq ==
  [ kind |-> "none", pc |-> "idle",
    hasuraUserId |-> Undefined, hasuraRoles |-> << >>,
    file |-> None, bucketName |-> Undefined, fileId |-> NoKey,
    bucketMetadata |-> None, fileMetadata |-> None, uploadedInfo |-> None,
    expiry |-> Undefined, article |-> None,
    isAuthenticated |-> None, guard |-> NoGuard,
    calls |-> << >>, error |-> "none", message |-> "none",
    status |-> 0, body |-> None ]

\* the bucket table of the concurrent runs: a default bucket of text files of
\* at most one byte, and an unrestricted one
ServedBuckets ==
  { BucketRow(DefaultBucketName, None, Some(1), Some({"text/plain"})),
    BucketRow("media", None, None, None) }

Init ==
  /\ buckets = ServedBuckets
  /\ files = {}
  /\ nextId = 1
  /\ minioBuckets = {}
  /\ objects = {}
  /\ articles = << >>
  /\ req = [ r \in Req |-> IdleReq ]

\* ------------------------------------------------------------- exceptions
BadRequestException == "BadRequestException"
NotFoundException == "NotFoundException"
ForbiddenException == "ForbiddenException"
InternalServerErrorException == "InternalServerErrorException"

\* the status Nest answers for an exception that leaves a handler
HttpStatus(exc) ==
  CASE exc = BadRequestException -> 400
    [] exc = ForbiddenException -> 403
    [] exc = NotFoundException -> 404
    [] OTHER -> 500

\* the request ends with exception exc
Throw(q, exc, msg) ==
  [ q EXCEPT !.pc = "done", !.error = exc, !.message = msg, !.status = HttpStatus(exc) ]

\* the request ends with a response
Respond(q, code, body) ==
  [ q EXCEPT !.pc = "done", !.status = code, !.body = Some(body) ]

\* ---------------------------------------------------------- store calls
\* what the metadata store answers: the rows asked for, no visible row (absent
\* or hidden by its row-level policy), or a failed request
Answers == { "ok", "null", "error" }

\* executeGraphQLRequest taking the last of the roles for the primary one
executeGraphQLRequest_lastRole(userId, roles) ==
  [ user |-> IF userId # Undefined THEN userId ELSE Undefined,
    role |-> IF Len(roles) > 0 THEN roles[Len(roles)] ELSE "anonymous" ]

\* the actor context FilesService forwards with a request
executeGraphQLRequest(userId, roles) ==
  [ user |-> IF userId # Undefined THEN userId ELSE Undefined,
    role |-> IF Len(roles) > 0 THEN roles[1] ELSE "anonymous" ]

\* one entry of a request's call log: ok, the call did not fail; found, it
\* answered with a row (metadata store) or met the object (object store)
HasuraCall(op, answer, found, hdr, key) ==
  [ svc |-> "hasura", op |-> op, ok |-> answer # "error", found |-> found,
    role |-> hdr.role, user |-> hdr.user, bucket |-> Undefined, key |-> key ]
MinioCall(op, ok, found, bucket, key) ==
  [ svc |-> "minio", op |-> op, ok |-> ok, found |-> found,
    role |-> Undefined, user |-> Undefined, bucket |-> bucket, key |-> key ]

Log(q, call) == [ q EXCEPT !.calls = Append(@, call) ]

\* ---------------------------------------------------------- bucket policy
\* the maximum-size rule of uploadFile
SizeExceedsMax(bucketMetadata, file) ==
  /\ TruthyNum(bucketMetadata.max_upload_size)
  /\ size(file) > Val(bucketMetadata.max_upload_size)

\* the MIME rule without its test for an empty list
MimeNotAllowed_emptyListRejects(bucketMetadata, file) ==
  /\ IsSome(bucketMetadata.allowed_mime_types)
  /\ file.mimetype \notin Val(bucketMetadata.allowed_mime_types)

\* the MIME rule of uploadFile
MimeNotAllowed(bucketMetadata, file) ==
  /\ IsSome(bucketMetadata.allowed_mime_types)
  /\ Cardinality(Val(bucketMetadata.allowed_mime_types)) > 0
  /\ file.mimetype \notin Val(bucketMetadata.allowed_mime_types)

\* ------------------------------------------------------------------ upload
\* the catch block of uploadFile rethrowing a BadRequestException only
uploadFile_catch_onlyBadRequest(exc) ==
  IF exc = BadRequestException THEN exc ELSE InternalServerErrorException

\* the catch block of uploadFile
uploadFile_catch(exc) ==
  IF exc \in { BadRequestException, NotFoundException }
  THEN exc ELSE InternalServerErrorException

\* POST /storage/upload arrives, as one of the offered requests: the identity
\* AuthGuard attached, the file (None: the request carries none) and
\* req.bucketName (Undefined: the default bucket); a missing file is refused
\* at once
uploadArrives(r, offered) ==
  /\ req[r].pc = "idle"
  /\ \E in \in offered :
       LET q == [ req[r] EXCEPT !.kind = "upload",
                                !.hasuraUserId = in.identity.hasuraUserId,
                                !.hasuraRoles = in.identity.hasuraRoles,
                                !.file = in.file,
                                !.bucketName = IF in.bucketName # Undefined
                                               THEN in.bucketName ELSE DefaultBucketName ]
       IN req' = [ req EXCEPT ![r] =
                     IF in.file = None
                     THEN Throw(q, BadRequestException, "No file uploaded.")
                     ELSE [ q EXCEPT !.pc = "getBucket" ] ]
  /\ UNCHANGED << buckets, files, nextId, minioBuckets, objects, articles >>

\* the uploads of the concurrent runs: a text file of one byte, sent by an
\* anonymous caller to the default bucket or by a user to the media bucket
uploadFile(r) ==
  uploadArrives(r,
    { in \in [ identity : Identities,
               file : { Some(f) : f \in { x \in Files : x.mimetype = "text/plain"
                                                        /\ size(x) = 1 } },
               bucketName : { Undefined, "media" } ] :
        in.identity.hasuraUserId = Undefined <=> in.bucketName = Undefined })

\* the uploads of the policy runs: any caller, any file or none, either bucket
uploadAnyFile(r) ==
  uploadArrives(r,
    [ identity : Identities,
      file : { None } \cup { Some(f) : f \in Files },
      bucketName : { Undefined, "media" } ])

\* getBucketByName: the first row with that name, or null
getBucketByName(answer, bucketName) ==
  LET rows == IF answer = "ok" THEN { b \in buckets : b.name = bucketName } ELSE {}
  IN IF rows = {} THEN None ELSE Some(CHOOSE b \in rows : TRUE)

\* the bucket lookup of uploadFile and the policy checks that follow it; the
\* exception thrown for a bucket without a row is no BadRequestException, so
\* the catch block replaces it and its message
uploadGetBucket(r) ==
  /\ req[r].pc = "getBucket"
  /\ \E answer \in Answers :
       LET q0 == req[r]
           hdr == executeGraphQLRequest(q0.hasuraUserId, q0.hasuraRoles)
           bucketMetadata == getBucketByName(answer, q0.bucketName)
           q == Log(q0, HasuraCall("getBucketByName", answer, bucketMetadata # None, hdr, NoKey))
           file == Val(q0.file)
       IN req' = [ req EXCEPT ![r] =
            IF answer = "error"
            THEN Throw(q, uploadFile_catch(InternalServerErrorException), "Failed to upload file")
            ELSE IF bucketMetadata = None
            THEN Throw(q, uploadFile_catch(InternalServerErrorException), "Failed to upload file")
            ELSE IF SizeExceedsMax(Val(bucketMetadata), file)
            THEN Throw(q, uploadFile_catch(BadRequestException), "File size exceeds maximum")
            ELSE IF MimeNotAllowed(Val(bucketMetadata), file)
            THEN Throw(q, uploadFile_catch(BadRequestException), "File type is not allowed")
            ELSE [ q EXCEPT !.pc = "create", !.bucketMetadata = bucketMetadata ] ]
  /\ UNCHANGED << buckets, files, nextId, minioBuckets, objects, articles >>

\* the row createFileMetadata inserts
createFileMetadata(id, input) ==
  [ id |-> id, name |-> input.name, bucket_id |-> input.bucketId,
    size |-> input.size, mime_type |-> input.mimeType, etag |-> None,
    is_uploaded |-> input.isUploaded,
    uploaded_by_user_id |-> input.uploadedByUserId ]

\* the record is created with isUploaded = false
uploadCreate(r) ==
  /\ req[r].pc = "create"
  /\ \E answer \in { "ok", "error" } :
       LET q0 == req[r]
           file == Val(q0.file)
           hdr == executeGraphQLRequest(q0.hasuraUserId, q0.hasuraRoles)
           q == Log(q0, HasuraCall("createFileMetadata", answer, answer = "ok", hdr,
                                   IF answer = "ok" THEN Uuid(nextId) ELSE NoKey))
           row == createFileMetadata(Uuid(nextId),
                    [ name |-> file.originalname, bucketId |-> Val(q0.bucketMetadata).id,
                      size |-> size(file), mimeType |-> file.mimetype,
                      uploadedByUserId |-> q0.hasuraUserId, isUploaded |-> FALSE ])
       IN IF answer = "ok"
          THEN /\ files' = files \cup { row }
               /\ nextId' = nextId + 1
               /\ req' = [ req EXCEPT ![r] =
                             [ q EXCEPT !.pc = "bucketExists", !.fileMetadata = Some(row) ] ]
          ELSE /\ req' = [ req EXCEPT ![r] =
                     Throw(q, uploadFile_catch(InternalServerErrorException), "Failed to upload file") ]
               /\ UNCHANGED << files, nextId >>
  /\ UNCHANGED << buckets, minioBuckets, objects, articles >>

\* ensureBucketExists, first await: bucketExists
uploadBucketExists(r) ==
  /\ req[r].pc = "bucketExists"
  /\ \E ok \in BOOLEAN :
       LET q == Log(req[r], MinioCall("bucketExists", ok,
                                     ok /\ req[r].bucketName \in minioBuckets,
                                     req[r].bucketName, NoKey))
       IN req' = [ req EXCEPT ![r] =
            IF ~ok
            THEN Throw(q, uploadFile_catch(InternalServerErrorException), "Failed to upload file")
            ELSE IF req[r].bucketName \in minioBuckets
            THEN [ q EXCEPT !.pc = "put" ]
            ELSE [ q EXCEPT !.pc = "makeBucket" ] ]
  /\ UNCHANGED << buckets, files, nextId, minioBuckets, objects, articles >>

\* ensureBucketExists, second await: makeBucket; the object store refuses to
\* make a bucket that exists by now
uploadMakeBucket(r) ==
  /\ req[r].pc = "makeBucket"
  /\ \E answer \in BOOLEAN :
       LET ok == answer /\ req[r].bucketName \notin minioBuckets
           q == Log(req[r], MinioCall("makeBucket", ok, ok, req[r].bucketName, NoKey))
       IN IF ok
          THEN /\ minioBuckets' = minioBuckets \cup { req[r].bucketName }
               /\ req' = [ req EXCEPT ![r] = [ q EXCEPT !.pc = "put" ] ]
          ELSE /\ req' = [ req EXCEPT ![r] =
                     Throw(q, uploadFile_catch(InternalServerErrorException), "Failed to upload file") ]
               /\ UNCHANGED minioBuckets
  /\ UNCHANGED << buckets, files, nextId, objects, articles >>

\* the object named after the client's file name instead of the record id
objectName_fileName(fileMetadata) == << "name", fileMetadata.name >>

\* the object name uploadFile stores the payload under
objectName(fileMetadata) == fileMetadata.id

\* the messages of the errors the object store's client rejects a call with
StoreMessages == { "MinIO upload error", "connect ECONNREFUSED" }

\* MinioService.uploadFile with a catch block that logs and returns
minioUploadFile_swallowsError(ok, data, msg) ==
  IF ok THEN [ threw |-> FALSE, value |-> Some([ etag |-> Some(ETag(data)) ]),
               message |-> "none" ]
  ELSE [ threw |-> FALSE, value |-> Some([ etag |-> None ]), message |-> "none" ]

\* MinioService.uploadFile rethrowing the store's error as it is
minioUploadFile_bareMessage(ok, data, msg) ==
  IF ok THEN [ threw |-> FALSE, value |-> Some([ etag |-> Some(ETag(data)) ]),
               message |-> "none" ]
  ELSE [ threw |-> TRUE, value |-> None, message |-> msg ]

\* MinioService.uploadFile: the answer of putObject, or an exception whose
\* message ends with the store's
minioUploadFile(ok, data, msg) ==
  IF ok THEN [ threw |-> FALSE, value |-> Some([ etag |-> Some(ETag(data)) ]),
               message |-> "none" ]
  ELSE [ threw |-> TRUE, value |-> None, message |-> "Failed to upload file: " \o msg ]

\* the payload is written to the object store under the record id
uploadPut(r) ==
  /\ req[r].pc = "put"
  /\ \E ok \in BOOLEAN, msg \in StoreMessages :
       LET q0 == req[r]
           file == Val(q0.file)
           key == objectName(Val(q0.fileMetadata))
           q == Log(q0, MinioCall("putObject", ok, ok, q0.bucketName, key))
           uploadedInfo == minioUploadFile(ok, file.buffer, msg)
           object == [ bucket |-> q0.bucketName, key |-> key, data |-> file.buffer,
                       size |-> size(file), etag |-> ETag(file.buffer),
                       contentType |-> file.mimetype ]
       IN /\ objects' = IF ok
                        THEN { o \in objects : ~(o.bucket = object.bucket /\ o.key = key) }
                             \cup { object }
                        ELSE objects
          /\ req' = [ req EXCEPT ![r] =
               IF uploadedInfo.threw \/ uploadedInfo.value = None
               THEN Throw(q, uploadFile_catch(InternalServerErrorException), "Failed to upload file")
               ELSE [ q EXCEPT !.pc = "update", !.uploadedInfo = uploadedInfo.value ] ]
  /\ UNCHANGED << buckets, files, nextId, minioBuckets, articles >>

\* the etag "" the update mutation falls back to
EmptyETag == << "" >>

\* updateFileMetadata whose mutation, sent without a user id, resets the owner
updateFileMetadata_resetsOwner(row, input) ==
  [ row EXCEPT !.etag = IF IsSome(input.etag) THEN input.etag ELSE Some(<< "" >>),
               !.mime_type = input.mimeType,
               !.name = input.name,
               !.size = input.size,
               !.is_uploaded = input.isUploaded,
               !.uploaded_by_user_id = Undefined ]

\* updateFileMetadata with is_uploaded left out of the mutation's _set
updateFileMetadata_keepsPending(row, input) ==
  [ row EXCEPT !.etag = IF IsSome(input.etag) THEN input.etag ELSE Some(<< "" >>),
               !.mime_type = input.mimeType,
               !.name = input.name,
               !.size = input.size ]

\* updateFileMetadata with the etag left out of the mutation's _set
updateFileMetadata_noEtag(row, input) ==
  [ row EXCEPT !.mime_type = input.mimeType,
               !.name = input.name,
               !.size = input.size,
               !.is_uploaded = input.isUploaded ]

\* the row updateFileMetadata leaves
updateFileMetadata(row, input) ==
  [ row EXCEPT !.etag = IF IsSome(input.etag) THEN input.etag ELSE Some(EmptyETag),
               !.mime_type = input.mimeType,
               !.name = input.name,
               !.size = input.size,
               !.is_uploaded = input.isUploaded ]

\* the record is confirmed: isUploaded = true with the etag of the put
uploadUpdate(r) ==
  /\ req[r].pc = "update"
  /\ \E answer \in Answers :
       LET q0 == req[r]
           file == Val(q0.file)
           id == Val(q0.fileMetadata).id
           hdr == executeGraphQLRequest(Undefined, << >>)
           rows == IF answer = "ok" THEN { f \in files : f.id = id } ELSE {}
           q == Log(q0, HasuraCall("updateFileMetadata", answer, rows # {}, hdr, id))
       IN IF rows # {}
          THEN LET old == CHOOSE f \in rows : TRUE
                   new == updateFileMetadata(old,
                            [ etag |-> Val(q0.uploadedInfo).etag, mimeType |-> file.mimetype,
                              name |-> file.originalname, size |-> size(file),
                              isUploaded |-> TRUE ])
               IN /\ files' = (files \ { old }) \cup { new }
                  /\ req' = [ req EXCEPT ![r] =
                       Respond(q, 201, [ message |-> "File uploaded successfully",
                                         updatedFileMetadata |-> new ]) ]
          ELSE /\ UNCHANGED files
               /\ req' = [ req EXCEPT ![r] =
                    IF answer = "error"
                    THEN Throw(q, uploadFile_catch(InternalServerErrorException), "Failed to upload file")
                    ELSE Throw(q, uploadFile_catch(NotFoundException), "File metadata not found") ]
  /\ UNCHANGED << buckets, nextId, minioBuckets, objects, articles >>

\* ------------------------------------------------------- record lookup
\* the file ids a client can name: every id handed out so far, and 0, which
\* no record ever has
FileIds == { Uuid(n) : n \in 0 .. (nextId - 1) }

\* getFileMetadata telling a row its policy hides from a row that is absent
getFileMetadata_hiddenIsForbidden(answer, fileId) ==
  LET rows == { f \in files : f.id = fileId }
  IN IF answer = "error"
     THEN [ threw |-> InternalServerErrorException, value |-> None ]
     ELSE IF rows = {}
     THEN [ threw |-> NotFoundException, value |-> None ]
     ELSE IF answer = "null"
     THEN [ threw |-> ForbiddenException, value |-> None ]
     ELSE LET f == CHOOSE x \in rows : TRUE
              b == CHOOSE x \in buckets : x.id = f.bucket_id
          IN [ threw |-> "none",
               value |-> Some([ id |-> f.id, name |-> f.name, bucket_id |-> f.bucket_id,
                                size |-> f.size, mime_type |-> f.mime_type,
                                etag |-> f.etag,
                                uploaded_by_user_id |-> f.uploaded_by_user_id,
                                bucket |-> [ name |-> b.name ] ]) ]

\* getFileMetadata: the row with its bucket's name joined in, or NotFound
getFileMetadata(answer, fileId) ==
  LET rows == IF answer = "ok" THEN { f \in files : f.id = fileId } ELSE {}
  IN IF answer = "error"
     THEN [ threw |-> InternalServerErrorException, value |-> None ]
     ELSE IF rows = {}
     THEN [ threw |-> NotFoundException, value |-> None ]
     ELSE LET f == CHOOSE x \in rows : TRUE
              b == CHOOSE x \in buckets : x.id = f.bucket_id
          IN [ threw |-> "none",
               value |-> Some([ id |-> f.id, name |-> f.name, bucket_id |-> f.bucket_id,
                                size |-> f.size, mime_type |-> f.mime_type,
                                etag |-> f.etag,
                                uploaded_by_user_id |-> f.uploaded_by_user_id,
                                bucket |-> [ name |-> b.name ] ]) ]

\* ---------------------------------------------------------------- download
\* the catch block of downloadFile
downloadFile_catch(exc) ==
  IF exc = NotFoundException THEN exc ELSE InternalServerErrorException

\* GET /storage/download/:fileId arrives
downloadFile(r) ==
  /\ req[r].pc = "idle"
  /\ \E id \in Identities, fileId \in FileIds :
       req' = [ req EXCEPT ![r] =
                  [ @ EXCEPT !.kind = "download", !.pc = "getFile",
                             !.hasuraUserId = id.hasuraUserId,
                             !.hasuraRoles = id.hasuraRoles,
                             !.fileId = fileId ] ]
  /\ UNCHANGED << buckets, files, nextId, minioBuckets, objects, articles >>

\* the record is fetched in the caller's name
downloadGetFile(r) ==
  /\ req[r].kind = "download" /\ req[r].pc = "getFile"
  /\ \E answer \in Answers :
       LET q0 == req[r]
           hdr == executeGraphQLRequest(q0.hasuraUserId, q0.hasuraRoles)
           res == getFileMetadata(answer, q0.fileId)
           q == Log(q0, HasuraCall("getFileMetadata", answer, res.value # None, hdr, q0.fileId))
       IN req' = [ req EXCEPT ![r] =
            IF res.threw # "none" \/ res.value = None
            THEN Throw(q, downloadFile_catch(IF res.threw # "none" THEN res.threw
                                             ELSE NotFoundException),
                       IF res.threw = InternalServerErrorException
                       THEN "Failed to download file" ELSE "File not found")
            ELSE [ q EXCEPT !.pc = "getObject", !.fileMetadata = res.value ] ]
  /\ UNCHANGED << buckets, files, nextId, minioBuckets, objects, articles >>

\* MinioService.downloadFile reading the default bucket whatever bucket it is
\* handed
minioDownloadFile_defaultBucket(ok, name, bucket) ==
  LET found == { o \in objects : o.bucket = DefaultBucketName /\ o.key = name }
  IN IF ok /\ found # {}
     THEN [ threw |-> "none", value |-> Some(CHOOSE o \in found : TRUE) ]
     ELSE [ threw |-> InternalServerErrorException, value |-> None ]

\* the Content-Disposition header downloadFile sets
contentDisposition(name) == << "attachment; filename=", name >>

\* MinioService.downloadFile: the object's stream, or an exception
minioDownloadFile(ok, name, bucket) ==
  LET found == { o \in objects : o.bucket = bucket /\ o.key = name }
  IN IF ok /\ found # {}
     THEN [ threw |-> "none", value |-> Some(CHOOSE o \in found : TRUE) ]
     ELSE [ threw |-> InternalServerErrorException, value |-> None ]

\* the object is fetched and piped into the response
downloadGetObject(r) ==
  /\ req[r].pc = "getObject"
  /\ \E ok \in BOOLEAN :
       LET q0 == req[r]
           fileMetadata == Val(q0.fileMetadata)
           res == minioDownloadFile(ok, objectName(fileMetadata), fileMetadata.bucket.name)
           q == Log(q0, MinioCall("getObject", ok, res.value # None,
                                  fileMetadata.bucket.name, objectName(fileMetadata)))
       IN req' = [ req EXCEPT ![r] =
            IF res.threw # "none"
            THEN Throw(q, downloadFile_catch(res.threw), "Failed to download file")
            ELSE Respond(q, 200,
                   [ contentType |-> fileMetadata.mime_type,
                     contentDisposition |-> contentDisposition(fileMetadata.name),
                     contentLength |-> fileMetadata.size,
                     data |-> Val(res.value).data ]) ]
  /\ UNCHANGED << buckets, files, nextId, minioBuckets, objects, articles >>

\* ------------------------------------------------------------------ delete
\* catch blocks of deleteFile that wrap every exception
deleteFile_catch_wrapsAll(exc) == InternalServerErrorException

\* the catch blocks of deleteFile (the inner and the outer one agree)
deleteFile_catch(exc) ==
  IF exc = NotFoundException THEN exc ELSE InternalServerErrorException

\* deleteFile without its test for a user id
NoUserId_neverRefuses(userId) == FALSE

\* deleteFile's test for a caller without a user id
NoUserId(userId) == userId = Undefined

\* deleteFile removing the object before the metadata row
DeleteOrder_objectFirst == << "deleteObject", "deleteMeta" >>

\* deleteFile issuing its metadata deletion once more after it succeeded
deleteFile_next_retries(step) ==
  IF step = "deleteMeta" THEN "deleteMeta" ELSE "respond"

\* the two store calls of deleteFile, in the order it awaits them
DeleteOrder == << "deleteMeta", "deleteObject" >>

\* where deleteFile goes after a store call that succeeded
deleteFile_next(step) ==
  IF step = DeleteOrder[1] THEN DeleteOrder[2] ELSE "respond"

\* deleteFile after a store call that succeeded
deleteFile_continue(q, step) ==
  IF deleteFile_next(step) = "respond"
  THEN Respond(q, 200, [ message |-> "File deleted successfully",
                         fileId |-> Val(q.fileMetadata).id ])
  ELSE [ q EXCEPT !.pc = deleteFile_next(step) ]

\* DELETE /storage/:fileId arrives; a caller without a user id is refused at once
deleteFile(r) ==
  /\ req[r].pc = "idle"
  /\ \E id \in Identities, fileId \in FileIds :
       LET q == [ req[r] EXCEPT !.kind = "delete",
                                !.hasuraUserId = id.hasuraUserId,
                                !.hasuraRoles = id.hasuraRoles,
                                !.fileId = fileId ]
       IN req' = [ req EXCEPT ![r] =
                     IF NoUserId(q.hasuraUserId)
                     THEN Throw(q, ForbiddenException, "Authentication required to delete files.")
                     ELSE [ q EXCEPT !.pc = "getFile" ] ]
  /\ UNCHANGED << buckets, files, nextId, minioBuckets, objects, articles >>

\* the record is fetched in the caller's name
deleteGetFile(r) ==
  /\ req[r].kind = "delete" /\ req[r].pc = "getFile"
  /\ \E answer \in Answers :
       LET q0 == req[r]
           hdr == executeGraphQLRequest(q0.hasuraUserId, q0.hasuraRoles)
           res == getFileMetadata(answer, q0.fileId)
           q == Log(q0, HasuraCall("getFileMetadata", answer, res.value # None, hdr, q0.fileId))
       IN req' = [ req EXCEPT ![r] =
            IF res.threw # "none" \/ res.value = None
            THEN Throw(q, deleteFile_catch(IF res.threw # "none" THEN res.threw
                                           ELSE NotFoundException),
                       IF res.threw = InternalServerErrorException
                       THEN "Failed to delete file" ELSE "File not found or not accessible")
            ELSE [ q EXCEPT !.pc = DeleteOrder[1], !.fileMetadata = res.value ] ]
  /\ UNCHANGED << buckets, files, nextId, minioBuckets, objects, articles >>

\* deleteFileMetadata returning null where no row was deleted
deleteFileMetadata_nullIsNoError(answer, rows) ==
  IF answer = "error"
  THEN [ threw |-> InternalServerErrorException, value |-> None ]
  ELSE IF rows = {}
  THEN [ threw |-> "none", value |-> None ]
  ELSE [ threw |-> "none", value |-> Some((CHOOSE f \in rows : TRUE).id) ]

\* deleteFileMetadata: the deleted row's id, or an exception
deleteFileMetadata(answer, rows) ==
  IF answer = "error"
  THEN [ threw |-> InternalServerErrorException, value |-> None ]
  ELSE IF rows = {}
  THEN [ threw |-> NotFoundException, value |-> None ]
  ELSE [ threw |-> "none", value |-> Some((CHOOSE f \in rows : TRUE).id) ]

\* the metadata row is deleted in the caller's name
deleteMeta(r) ==
  /\ req[r].pc = "deleteMeta"
  /\ \E answer \in Answers :
       LET q0 == req[r]
           hdr == executeGraphQLRequest(q0.hasuraUserId, q0.hasuraRoles)
           rows == IF answer = "ok" THEN { f \in files : f.id = q0.fileId } ELSE {}
           res == deleteFileMetadata(answer, rows)
           q == Log(q0, HasuraCall("deleteFileMetadata", answer, rows # {}, hdr, q0.fileId))
       IN /\ files' = files \ rows
          /\ req' = [ req EXCEPT ![r] =
               IF res.threw # "none"
               THEN Throw(q, deleteFile_catch(deleteFile_catch(res.threw)), "Failed to delete file")
               ELSE deleteFile_continue(q, "deleteMeta") ]
  /\ UNCHANGED << buckets, nextId, minioBuckets, objects, articles >>

\* MinioService.deleteFile: removeObject, or an exception
minioDeleteFile(ok, name, bucket) ==
  IF ok
  THEN [ threw |-> "none", removed |-> { o \in objects : o.bucket = bucket /\ o.key = name } ]
  ELSE [ threw |-> InternalServerErrorException, removed |-> {} ]

\* the backing object is deleted
deleteObject(r) ==
  /\ req[r].pc = "deleteObject"
  /\ \E ok \in BOOLEAN :
       LET q0 == req[r]
           fileMetadata == Val(q0.fileMetadata)
           res == minioDeleteFile(ok, objectName(fileMetadata), fileMetadata.bucket.name)
           present == \E o \in objects : o.bucket = fileMetadata.bucket.name
                                         /\ o.key = objectName(fileMetadata)
           q == Log(q0, MinioCall("removeObject", ok, present,
                                  fileMetadata.bucket.name, objectName(fileMetadata)))
       IN /\ objects' = objects \ res.removed
          /\ req' = [ req EXCEPT ![r] =
               IF res.threw # "none"
               THEN Throw(q, deleteFile_catch(deleteFile_catch(res.threw)), "Failed to delete file")
               ELSE deleteFile_continue(q, "deleteObject") ]
  /\ UNCHANGED << buckets, files, nextId, minioBuckets, articles >>

\* ----------------------------------------------------------- presigned URL
\* the catch block of getPresignedUrl wrapping whatever it catches
getPresignedUrl_catch_wrapsAll(exc) == InternalServerErrorException

\* the catch block of getPresignedUrl
getPresignedUrl_catch(exc) ==
  IF exc \in { NotFoundException, BadRequestException }
  THEN exc ELSE InternalServerErrorException

\* the ?expiry= query strings a client sends (Undefined: none), and parseInt
\* of them; << >> is NaN
Expiries == { Undefined, "", "60", "soon" }
parseInt(expiry) == IF expiry = "60" THEN Some(60) ELSE None

\* the lifetime getPresignedUrl falls back to
DefaultExpiry == 300

\* the lifetime taken from the bucket whatever the query says
expirySeconds_bucketOnly(expiry, bucketMetadata) ==
  IF TruthyNum(bucketMetadata.download_expiration)
  THEN bucketMetadata.download_expiration
  ELSE Some(DefaultExpiry)

\* the lifetime getPresignedUrl asks the object store for; an empty query
\* string is falsy like an absent one
expirySeconds(expiry, bucketMetadata) ==
  IF expiry \notin { Undefined, "" } THEN parseInt(expiry)
  ELSE IF TruthyNum(bucketMetadata.download_expiration)
  THEN bucketMetadata.download_expiration
  ELSE Some(DefaultExpiry)

\* GET /storage/presigned-url/:fileId arrives
getPresignedUrl(r) ==
  /\ req[r].pc = "idle"
  /\ \E id \in Identities, fileId \in FileIds, expiry \in Expiries :
       req' = [ req EXCEPT ![r] =
                  [ @ EXCEPT !.kind = "presign", !.pc = "getFile",
                             !.hasuraUserId = id.hasuraUserId,
                             !.hasuraRoles = id.hasuraRoles,
                             !.fileId = fileId,
                             !.expiry = expiry ] ]
  /\ UNCHANGED << buckets, files, nextId, minioBuckets, objects, articles >>

\* the record is fetched in the caller's name
presignGetFile(r) ==
  /\ req[r].kind = "presign" /\ req[r].pc = "getFile"
  /\ \E answer \in Answers :
       LET q0 == req[r]
           hdr == executeGraphQLRequest(q0.hasuraUserId, q0.hasuraRoles)
           res == getFileMetadata(answer, q0.fileId)
           q == Log(q0, HasuraCall("getFileMetadata", answer, res.value # None, hdr, q0.fileId))
       IN req' = [ req EXCEPT ![r] =
            IF res.threw # "none" \/ res.value = None
            THEN Throw(q, getPresignedUrl_catch(IF res.threw # "none" THEN res.threw
                                                ELSE NotFoundException),
                       IF res.threw = InternalServerErrorException
                       THEN "Failed to generate presigned URL" ELSE "File not found")
            ELSE [ q EXCEPT !.pc = "presignGetBucket", !.fileMetadata = res.value ] ]
  /\ UNCHANGED << buckets, files, nextId, minioBuckets, objects, articles >>

\* the record's bucket is fetched in the caller's name and must allow
\* presigned URLs
presignGetBucket(r) ==
  /\ req[r].pc = "presignGetBucket"
  /\ \E answer \in Answers :
       LET q0 == req[r]
           hdr == executeGraphQLRequest(q0.hasuraUserId, q0.hasuraRoles)
           name == Val(q0.fileMetadata).bucket.name
           bucketMetadata == getBucketByName(answer, name)
           q == Log(q0, HasuraCall("getBucketByName", answer, bucketMetadata # None, hdr, NoKey))
       IN req' = [ req EXCEPT ![r] =
            IF answer = "error"
            THEN Throw(q, getPresignedUrl_catch(InternalServerErrorException),
                       "Failed to generate presigned URL")
            ELSE IF bucketMetadata = None \/ ~Val(bucketMetadata).presigned_urls_enabled
            THEN Throw(q, getPresignedUrl_catch(BadRequestException),
                       "Presigned URLs are not enabled")
            ELSE [ q EXCEPT !.pc = "presign", !.bucketMetadata = bucketMetadata ] ]
  /\ UNCHANGED << buckets, files, nextId, minioBuckets, objects, articles >>

\* MinioService.getPresignedUrl: the URL presignedGetObject signs, or an
\* exception; the object store signs without looking for the object
minioGetPresignedUrl(ok, name, expiry, bucket) ==
  IF ok THEN [ threw |-> "none", value |-> Some(<< "url", bucket, name, expiry >>) ]
  ELSE [ threw |-> InternalServerErrorException, value |-> None ]

\* the URL is signed for the record id in the record's bucket
presignUrl(r) ==
  /\ req[r].pc = "presign"
  /\ \E ok \in BOOLEAN :
       LET q0 == req[r]
           fileMetadata == Val(q0.fileMetadata)
           expiry == expirySeconds(q0.expiry, Val(q0.bucketMetadata))
           res == minioGetPresignedUrl(ok, objectName(fileMetadata), expiry,
                                       fileMetadata.bucket.name)
           q == Log(q0, MinioCall("presignedGetObject", ok, ok,
                                  fileMetadata.bucket.name, objectName(fileMetadata)))
       IN req' = [ req EXCEPT ![r] =
            IF res.threw # "none"
            THEN Throw(q, getPresignedUrl_catch(res.threw), "Failed to generate presigned URL")
            ELSE Respond(q, 200, [ url |-> Val(res.value) ]) ]
  /\ UNCHANGED << buckets, files, nextId, minioBuckets, objects, articles >>

\* --------------------------------------------------------------- AuthGuard
JsonWebTokenError == "JsonWebTokenError"
TypeError == "TypeError"
SyntaxError == "SyntaxError"
FetchError == "FetchError"
UnauthorizedException == "UnauthorizedException"

\* the bearer token of the authorization header, or null
extractJwtFromHeader(headers) ==
  IF headers.scheme = "Bearer" THEN Some(headers.token) ELSE None

\* validateJwt: the decoded payload of a token that verifies under the
\* configured secret, or an exception
validateJwt(token, hasuraJwtSecret) ==
  IF ~hasuraJwtSecret
  THEN [ threw |-> InternalServerErrorException, value |-> None ]
  ELSE IF token.signed /\ ~token.expired
  THEN [ threw |-> "none", value |-> Some(token.claims) ]
  ELSE [ threw |-> JsonWebTokenError, value |-> None ]

\* the try block of the token strategy: the identity read off the hasura
\* claims of the verified payload
tokenStrategy(token, hasuraJwtSecret) ==
  LET decodedJwt == validateJwt(token, hasuraJwtSecret)
  IN IF decodedJwt.threw # "none"
     THEN [ threw |-> decodedJwt.threw, identity |-> None ]
     ELSE IF Val(decodedJwt.value) = None
     THEN [ threw |-> TypeError, identity |-> None ]
     ELSE [ threw |-> "none",
            identity |-> Some([ hasuraUserId |-> Val(Val(decodedJwt.value)).userId,
                                hasuraRoles |-> Val(Val(decodedJwt.value)).roles,
                                isAuthenticated |-> TRUE ]) ]

\* validateSessionWithBetterAuth without its test of the response status
validateSessionWithBetterAuth_ignoresStatus(answer) ==
  LET thrown == IF ~answer.reachable THEN FetchError
                ELSE IF answer.body = None THEN SyntaxError
                ELSE IF Val(answer.body).userId = Undefined
                        \/ Val(answer.body).role = Undefined
                THEN UnauthorizedException
                ELSE "none"
  IN IF thrown # "none"
     THEN [ threw |-> InternalServerErrorException, identity |-> None ]
     ELSE [ threw |-> "none",
            identity |-> Some([ hasuraUserId |-> Val(answer.body).userId,
                                hasuraRoles |-> << Val(answer.body).role >>,
                                isAuthenticated |-> TRUE ]) ]

\* validateSessionWithBetterAuth: the identity the identity service returned;
\* whatever is thrown on the way leaves as InternalServerErrorException
validateSessionWithBetterAuth(answer) ==
  LET thrown == IF ~answer.reachable THEN FetchError
                ELSE IF ~answer.ok THEN UnauthorizedException
                ELSE IF answer.body = None THEN SyntaxError
                ELSE IF Val(answer.body).userId = Undefined
                        \/ Val(answer.body).role = Undefined
                THEN UnauthorizedException
                ELSE "none"
  IN IF thrown # "none"
     THEN [ threw |-> InternalServerErrorException, identity |-> None ]
     ELSE [ threw |-> "none",
            identity |-> Some([ hasuraUserId |-> Val(answer.body).userId,
                                hasuraRoles |-> << Val(answer.body).role >>,
                                isAuthenticated |-> TRUE ]) ]

\* catch blocks of canActivate that let the exception leave
canActivate_catch_rethrows(exc) == exc

\* the catch blocks of canActivate: the exception is logged, nothing leaves
canActivate_catch(exc) == "none"

\* an anonymous identity that carries a user id
AnonymousIdentity_guest ==
  [ hasuraUserId |-> "guest", hasuraRoles |-> << "anonymous" >>,
    isAuthenticated |-> FALSE ]

\* the identity of a caller no strategy authenticated
AnonymousIdentity ==
  [ hasuraUserId |-> Undefined, hasuraRoles |-> << "anonymous" >>,
    isAuthenticated |-> FALSE ]

\* canActivate returns true with the identity attached to the request
Admit(q, identity) ==
  [ q EXCEPT !.hasuraUserId = identity.hasuraUserId,
             !.hasuraRoles = identity.hasuraRoles,
             !.isAuthenticated = Some(identity.isAuthenticated),
             !.guard.pc = "admitted" ]

\* an exception leaves canActivate: the request ends with it
Reject(q, exc) ==
  Throw([ q EXCEPT !.guard.pc = "rejected" ], exc, "guard")

\* a strategy ran and ended with exception threw ("none": it authenticated)
Tried(q, strategy, threw) ==
  [ q EXCEPT !.guard.tried = Append(@, [ strategy |-> strategy, threw |-> threw ]) ]

\* canActivate after a strategy that ran: admitted with its identity, or on
\* to what follows it
afterStrategy(q, res, following) ==
  IF res.threw = "none" THEN Admit(q, Val(res.identity))
  ELSE IF canActivate_catch(res.threw) # "none"
  THEN Reject(q, canActivate_catch(res.threw))
  ELSE following

\* a request reaches the guard of a process that started: the token strategy runs if the request bears
\* a token; a request it does not admit awaits the identity service if one is
\* configured and is anonymous otherwise
canActivate(r) ==
  /\ req[r].pc = "idle" /\ req[r].guard.pc = "none"
  /\ \E headers \in Headers, env \in { e \in Environments : bootstrap(e) } :
       LET hasuraJwtSecret == "HASURA_GRAPHQL_JWT_SECRET" \in env
           betterAuthApiUrl == "BETTER_AUTH_API_URL" \in env
           q0 == [ req[r] EXCEPT !.guard.pc = "jwt",
                                 !.guard.env = env,
                                 !.guard.headers = headers,
                                 !.guard.hasuraJwtSecret = hasuraJwtSecret,
                                 !.guard.betterAuthApiUrl = betterAuthApiUrl ]
           jwtToken == extractJwtFromHeader(headers)
           res == tokenStrategy(Val(jwtToken), hasuraJwtSecret)
           following(q) == IF betterAuthApiUrl
                           THEN [ q EXCEPT !.guard.pc = "session" ]
                           ELSE Admit(q, AnonymousIdentity)
       IN req' = [ req EXCEPT ![r] =
            IF jwtToken = None THEN following(q0)
            ELSE afterStrategy(Tried(q0, "token", res.threw), res,
                               following(Tried(q0, "token", res.threw))) ]
  /\ UNCHANGED << buckets, files, nextId, minioBuckets, objects, articles >>

\* the identity service answers the forwarded headers: the remote-session
\* strategy admits the request with the returned identity, or as anonymous
canActivateSession(r) ==
  /\ req[r].guard.pc = "session"
  /\ \E answer \in RemoteAnswers :
       LET q0 == [ req[r] EXCEPT !.guard.answer = Some(answer) ]
           res == validateSessionWithBetterAuth(answer)
           q == Tried(q0, "session", res.threw)
       IN req' = [ req EXCEPT ![r] =
            afterStrategy(q, res, Admit(q, AnonymousIdentity)) ]
  /\ UNCHANGED << buckets, files, nextId, minioBuckets, objects, articles >>

\* the admitted request is an upload of a.txt, in the identity the guard
\* attached
uploadAdmitted(r) ==
  /\ req[r].guard.pc = "admitted"
  /\ uploadArrives(r,
       [ identity : { [ hasuraUserId |-> req[r].hasuraUserId,
                        hasuraRoles |-> req[r].hasuraRoles ] },
         file : { Some([ originalname |-> "a.txt", buffer |-> << 0 >>,
                         mimetype |-> "text/plain" ]) },
         bucketName : { Undefined, "media" } ])

\* ------------------------------------------------------------ specification
Next ==
  \E r \in Req :
    \/ uploadFile(r)
    \/ uploadGetBucket(r)
    \/ uploadCreate(r)
    \/ uploadBucketExists(r)
    \/ uploadMakeBucket(r)
    \/ uploadPut(r)
    \/ uploadUpdate(r)
    \/ downloadFile(r)
    \/ downloadGetFile(r)
    \/ downloadGetObject(r)
    \/ deleteFile(r)
    \/ deleteGetFile(r)
    \/ deleteMeta(r)
    \/ deleteObject(r)

Spec == Init /\ [][Next]_vars

\* one upload at a time against every bucket table and every file
InitPolicy ==
  /\ buckets \in BucketTables
  /\ files = {}
  /\ nextId = 1
  /\ minioBuckets \in { {}, {DefaultBucketName} }
  /\ objects = {}
  /\ articles = << >>
  /\ req = [ r \in Req |-> IdleReq ]

NextPolicy ==
  \/ uploadAnyFile(1)
  \/ uploadGetBucket(1)
  \/ uploadCreate(1)
  \/ uploadBucketExists(1)
  \/ uploadMakeBucket(1)
  \/ uploadPut(1)
  \/ uploadUpdate(1)

SpecPolicy == InitPolicy /\ [][NextPolicy]_vars

\* one request through the guard and on into an upload
NextAuth ==
  \/ canActivate(1)
  \/ canActivateSession(1)
  \/ uploadAdmitted(1)
  \/ uploadGetBucket(1)
  \/ uploadCreate(1)
  \/ uploadBucketExists(1)
  \/ uploadMakeBucket(1)
  \/ uploadPut(1)
  \/ uploadUpdate(1)

SpecAuth == Init /\ [][NextAuth]_vars

\* ------------------------------------------------------------ a stored file
\* the upload that left the stored file: a.txt of one byte, sent by user u1
\* to the media bucket
StoredFile == [ originalname |-> "a.txt", buffer |-> << 0 >>, mimetype |-> "text/plain" ]
StoredBucket == CHOOSE b \in ServedBuckets : b.name = "media"

\* the record that upload confirmed
StoredRecord ==
  updateFileMetadata(
    createFileMetadata(Uuid(1),
      [ name |-> StoredFile.originalname, bucketId |-> StoredBucket.id,
        size |-> size(StoredFile), mimeType |-> StoredFile.mimetype,
        uploadedByUserId |-> "u1", isUploaded |-> FALSE ]),
    [ etag |-> Some(ETag(StoredFile.buffer)), mimeType |-> StoredFile.mimetype,
      name |-> StoredFile.originalname, size |-> size(StoredFile),
      isUploaded |-> TRUE ])

\* the object that upload put
StoredObject ==
  [ bucket |-> StoredBucket.name, key |-> objectName(StoredRecord),
    data |-> StoredFile.buffer, size |-> size(StoredFile),
    etag |-> ETag(StoredFile.buffer), contentType |-> StoredFile.mimetype ]

\* the service with that upload behind it
InitStored ==
  /\ buckets = ServedBuckets
  /\ files = { StoredRecord }
  /\ nextId = 2
  /\ minioBuckets = { StoredBucket.name }
  /\ objects = { StoredObject }
  /\ articles = << >>
  /\ req = [ r \in Req |-> IdleReq ]

\* a client repeats, in the same user's name, a delete that was answered
\* with success
deleteFileAgain(r) ==
  /\ deleteFile(r)
  /\ \E d \in Req :
       /\ req[d].kind = "delete" /\ req[d].status = 200
       /\ req'[r].fileId = req[d].fileId
       /\ req'[r].hasuraUserId = req[d].hasuraUserId

\* --------------------------------------------------------------- round trip
\* the files of the round-trip runs: two names, payloads over two byte values
RoundTripNames == { "a.txt", "b.png" }
RoundTripBytes == { 0, 1 }
RoundTripFiles ==
  [ originalname : RoundTripNames, buffer : SeqsUpTo(RoundTripBytes, MaxLen),
    mimetype : Mimes ]

\* the uploads of the round-trip runs: any caller, any of those files, either
\* bucket
uploadRoundTrip(r) ==
  uploadArrives(r,
    [ identity : Identities,
      file : { Some(f) : f \in RoundTripFiles },
      bucketName : { Undefined, "media" } ])

\* a client downloads the file id an upload was answered with
downloadReturned(r) ==
  /\ downloadFile(r)
  /\ \E u \in Req :
       /\ req[u].kind = "upload" /\ req[u].status = 201
       /\ req'[r].fileId = Val(req[u].body).updatedFileMetadata.id

\* request 1 uploads beside the stored file; the others download what it was
\* answered with; nothing is deleted
NextRoundTrip ==
  \/ uploadRoundTrip(1)
  \/ uploadGetBucket(1)
  \/ uploadCreate(1)
  \/ uploadBucketExists(1)
  \/ uploadMakeBucket(1)
  \/ uploadPut(1)
  \/ uploadUpdate(1)
  \/ \E r \in Req \ { 1 } :
       \/ downloadReturned(r)
       \/ downloadGetFile(r)
       \/ downloadGetObject(r)

SpecRoundTrip == InitStored /\ [][NextRoundTrip]_vars

\* downloads, presigned URLs and deletes of the stored file; request 1 is the
\* only one to delete unprompted, the others delete only what a delete has
\* been answered for; presigned URLs are asked for with a numeric expiry or
\* none (SpecPresign has every expiry)
NextStored ==
  \/ deleteFile(1)
  \/ \E r \in Req \ { 1 } : deleteFileAgain(r)
  \/ \E r \in Req :
       \/ deleteGetFile(r)
       \/ deleteMeta(r)
       \/ deleteObject(r)
       \/ downloadFile(r)
       \/ downloadGetFile(r)
       \/ downloadGetObject(r)
       \/ getPresignedUrl(r) /\ req'[r].expiry \in { Undefined, "60" }
       \/ presignGetFile(r)
       \/ presignGetBucket(r)
       \/ presignUrl(r)

SpecStored == InitStored /\ [][NextStored]_vars

\* ----------------------------------------------------------- presigned URLs
\* the default lifetimes a bucket row is provisioned with (nullable column)
DownloadExpirations == { None, Some(0), Some(120) }

\* the stored file's bucket under each presign policy, beside a default
\* bucket of another lifetime
PresignTables ==
  { { [ b EXCEPT !.download_expiration =
                    IF b.name = StoredBucket.name THEN de ELSE Some(30),
                 !.presigned_urls_enabled =
                    IF b.name = StoredBucket.name THEN en ELSE TRUE ] :
        b \in ServedBuckets } :
      de \in DownloadExpirations, en \in BOOLEAN }

InitPresign ==
  /\ buckets \in PresignTables
  /\ files = { StoredRecord }
  /\ nextId = 2
  /\ minioBuckets = { StoredBucket.name }
  /\ objects = { StoredObject }
  /\ articles = << >>
  /\ req = [ r \in Req |-> IdleReq ]

\* one presigned-URL request
NextPresign ==
  \/ getPresignedUrl(1)
  \/ presignGetFile(1)
  \/ presignGetBucket(1)
  \/ presignUrl(1)

SpecPresign == InitPresign /\ [][NextPresign]_vars

\* --------------------------------------------- MinioService.uploadFile alone
\* the bucket uploadFile writes to: the one it is handed, if any
targetBucket(bucketName) ==
  IF bucketName # Undefined THEN bucketName ELSE DefaultBucketName

\* uploadFile is called by a caller other than the controller: fileId holds
\* the objectName it is handed, file the stream, size and metadata, and
\* bucketName the bucket name, if any
minioUploadFileCalled(r) ==
  /\ req[r].pc = "idle"
  /\ \E name \in { Uuid(1), Uuid(2) }, file \in Files, bucketName \in BucketNames \cup { Undefined } :
       req' = [ req EXCEPT ![r] =
                  [ @ EXCEPT !.kind = "minioUpload", !.pc = "ensureBucketExists",
                             !.fileId = name, !.file = Some(file),
                             !.bucketName = bucketName ] ]
  /\ UNCHANGED << buckets, files, nextId, minioBuckets, objects, articles >>

\* ensureBucketExists as uploadFile awaits it, outside its try block: a
\* failure of bucketExists or makeBucket leaves uploadFile as the exception
\* ensureBucketExists throws
minioEnsureBucketExists(r) ==
  /\ req[r].pc \in { "ensureBucketExists", "ensureMakeBucket" }
  /\ \E answer \in BOOLEAN, msg \in StoreMessages :
       LET q0 == req[r]
           bucket == targetBucket(q0.bucketName)
           exists == bucket \in minioBuckets
           making == q0.pc = "ensureMakeBucket"
           ok == answer /\ (making => ~exists)
           q == Log(q0, MinioCall(IF making THEN "makeBucket" ELSE "bucketExists",
                                  ok, IF making THEN ok ELSE ok /\ exists, bucket, NoKey))
       IN /\ minioBuckets' = IF making /\ ok THEN minioBuckets \cup { bucket }
                             ELSE minioBuckets
          /\ req' = [ req EXCEPT ![r] =
               IF ~ok
               THEN Throw(q, InternalServerErrorException,
                          "MinIO bucket initialization failed: " \o msg)
               ELSE IF making \/ exists
               THEN [ q EXCEPT !.pc = "putObject" ]
               ELSE [ q EXCEPT !.pc = "ensureMakeBucket" ] ]
  /\ UNCHANGED << buckets, files, nextId, objects, articles >>

\* putObject inside the try block of uploadFile; body is what uploadFile
\* returns
minioPutObject(r) ==
  /\ req[r].pc = "putObject"
  /\ \E ok \in BOOLEAN, msg \in StoreMessages :
       LET q0 == req[r]
           file == Val(q0.file)
           bucket == targetBucket(q0.bucketName)
           q == Log(q0, MinioCall("putObject", ok, ok, bucket, q0.fileId))
           res == minioUploadFile(ok, file.buffer, msg)
           object == [ bucket |-> bucket, key |-> q0.fileId, data |-> file.buffer,
                       size |-> size(file), etag |-> ETag(file.buffer),
                       contentType |-> file.mimetype ]
       IN /\ objects' = IF ok
                        THEN { o \in objects : ~(o.bucket = bucket /\ o.key = q0.fileId) }
                             \cup { object }
                        ELSE objects
          /\ req' = [ req EXCEPT ![r] =
               IF res.threw
               THEN Throw(q, InternalServerErrorException, res.message)
               ELSE [ q EXCEPT !.pc = "done", !.body = res.value ] ]
  /\ UNCHANGED << buckets, files, nextId, minioBuckets, articles >>

\* the object store before the call: with or without the default bucket
InitMinio ==
  /\ buckets = ServedBuckets
  /\ files = {}
  /\ nextId = 1
  /\ minioBuckets \in SUBSET { DefaultBucketName }
  /\ objects = {}
  /\ articles = << >>
  /\ req = [ r \in Req |-> IdleReq ]

\* one call of MinioService.uploadFile
NextMinio ==
  \/ minioUploadFileCalled(1)
  \/ minioEnsureBucketExists(1)
  \/ minioPutObject(1)

SpecMinio == InitMinio /\ [][NextMinio]_vars

\* ------------------------------------------------------ concurrent deletes
\* delete requests racing for the stored file
NextDeletes ==
  \E r \in Req :
    \/ deleteFile(r)
    \/ deleteGetFile(r)
    \/ deleteMeta(r)
    \/ deleteObject(r)

SpecDeletes == InitStored /\ [][NextDeletes]_vars

\* --------------------------------------------------------- ArticlesService
\* the milliseconds Date.now() is observed at
MaxNow == 2

\* ArticlesService.create: the article with the id made of the clock's
\* milliseconds, copied, and the copy's title set
create(article, now) ==
  LET withId == [ article EXCEPT !.id = << "ms", now >> ]
      articleBuffer == [ withId EXCEPT !.title = "Untitled Article" ]
  IN articleBuffer

\* POST /articles: the controller builds the article from the body, with an
\* empty id, and answers with what create returns; create pushes it
createArticle(r) ==
  /\ req[r].pc = "idle"
  /\ \E title \in { "Test Title", "Untitled Article" }, content \in { "Test Content", "" },
        now \in 1 .. MaxNow :
       LET newArticle == [ id |-> << >>, title |-> title, content |-> content,
                           author |-> "Test Author" ]
           created == create(newArticle, now)
       IN /\ articles' = Append(articles, created)
          /\ req' = [ req EXCEPT ![r] =
                        Respond([ @ EXCEPT !.kind = "article", !.article = Some(newArticle) ],
                                201, created) ]
  /\ UNCHANGED << buckets, files, nextId, minioBuckets, objects >>

NextArticles == \E r \in Req : createArticle(r)

SpecArticles == Init /\ [][NextArticles]_vars

\* ------------------------------------------------------------- termination
\* the store call request r awaits returns or fails, and r takes its next step
Returns(r) ==
  \/ uploadGetBucket(r)
  \/ uploadCreate(r)
  \/ uploadBucketExists(r)
  \/ uploadMakeBucket(r)
  \/ uploadPut(r)
  \/ uploadUpdate(r)
  \/ deleteGetFile(r)
  \/ deleteMeta(r)
  \/ deleteObject(r)
  \/ presignGetFile(r)
  \/ presignGetBucket(r)
  \/ presignUrl(r)

\* an upload, and deletes and presigned-URL requests for the stored file,
\* arrive or never do
NextLive ==
  \/ uploadFile(1)
  \/ \E r \in Req \ { 1 } :
       /\ deleteFile(r) \/ getPresignedUrl(r)
       /\ req'[r].fileId = StoredRecord.id
       /\ req'[r].expiry = Undefined
  \/ \E r \in Req : Returns(r)

\* every store call eventually returns or fails
SpecLive ==
  /\ InitStored
  /\ [][NextLive]_vars
  /\ \A r \in Req : WF_vars(Returns(r))

\* ------------------------------------------------------------- call logs
Uploads == { r \in Req : req[r].kind = "upload" }
Downloads == { r \in Req : req[r].kind = "download" }
Deletes == { r \in Req : req[r].kind = "delete" }

\* the positions of op in the call log of r
Calls(r, op) == { i \in DOMAIN req[r].calls : req[r].calls[i].op = op }
Called(r, op) == Calls(r, op) # {}

\* the call did what the handler needed of it
Succeeded(c) == c.ok /\ (c.op \in { "bucketExists", "removeObject" } \/ c.found)

\* the name of the bucket a storage.files row belongs to
BucketNameOf(bucket_id) == (CHOOSE b \in buckets : b.id = bucket_id).name

\* the object a record's bytes are expected under
ObjectsOf(f) ==
  { o \in objects : o.key = f.id /\ o.bucket = BucketNameOf(f.bucket_id) }

\* ------------------------------------------------------------------ claims
\* C1: every record with isUploaded = true has an object under key = record id
\* in the record's bucket, and the record's size and etag are that object's.
C1_UploadedRecordHasObject ==
  \A f \in files :
    f.is_uploaded =>
      \E o \in ObjectsOf(f) : f.etag = Some(o.etag) /\ f.size = o.size

\* a confirmed record while a delete of it is about to remove the metadata row
C1_Witness ==
  \E f \in files, r \in Deletes :
    /\ f.is_uploaded
    /\ req[r].fileId = f.id
    /\ req[r].pc = "deleteMeta"

\* the store calls of an upload, in the order the protocol gives them
UploadOrder ==
  << "getBucketByName", "createFileMetadata", "bucketExists", "makeBucket",
     "putObject", "updateFileMetadata" >>
Position(op) == CHOOSE i \in DOMAIN UploadOrder : UploadOrder[i] = op

\* C2: an upload looks the bucket up, checks the policy, creates the record
\* with isUploaded = false, puts the object under the created record's id and
\* only then updates the record to isUploaded = true; the update follows a put
\* of the same request that succeeded, the put follows the creation.
C2_UploadStepOrder ==
  \A r \in Uploads :
    LET c == req[r].calls
        created == { i \in Calls(r, "createFileMetadata") : Succeeded(c[i]) }
        put == { i \in Calls(r, "putObject") : Succeeded(c[i]) }
    IN /\ \A i, j \in DOMAIN c : i < j => Position(c[i].op) < Position(c[j].op)
       /\ Called(r, "createFileMetadata") =>
            /\ \E i \in Calls(r, "getBucketByName") : Succeeded(c[i])
            /\ IsSome(req[r].bucketMetadata)
            /\ Val(req[r].bucketMetadata).name = req[r].bucketName
            /\ ~SizeExceedsMax(Val(req[r].bucketMetadata), Val(req[r].file))
            /\ ~MimeNotAllowed(Val(req[r].bucketMetadata), Val(req[r].file))
       /\ \A i \in Calls(r, "putObject") :
            /\ created # {}
            /\ \A k \in created : c[i].key = c[k].key
            /\ c[i].bucket = req[r].bucketName
       /\ \A i \in Calls(r, "updateFileMetadata") :
            /\ put # {}
            /\ \A k \in put : c[i].key = c[k].key
       /\ \A k \in created, f \in files :
            f.id = c[k].key =>
              (f.is_uploaded <=> \E i \in Calls(r, "updateFileMetadata") : Succeeded(c[i]))

\* an upload that went through every step, the bucket made on the way
C2_Witness ==
  \E r \in Uploads :
    /\ req[r].status = 201
    /\ Called(r, "makeBucket")
    /\ \E f \in files : f.is_uploaded /\ ObjectsOf(f) # {}

\* the bucket row an upload names, if the metadata store holds one
NamedBucket(r) == { b \in buckets : b.name = req[r].bucketName }

\* the bucket lookup of r answered with the bucket row
LookupFound(r) ==
  \E i \in Calls(r, "getBucketByName") : Succeeded(req[r].calls[i])

\* r reached neither the record creation nor the object store
NothingWritten(r) ==
  /\ ~Called(r, "createFileMetadata")
  /\ \A i \in DOMAIN req[r].calls : req[r].calls[i].svc # "minio"
  /\ files = {}
  /\ objects = {}

\* C3: an upload larger than the maxUploadSize its bucket sets is rejected
\* with 400, the object store receives no call and no record is created.
C3_OversizeRejected ==
  \A r \in Uploads : \A b \in NamedBucket(r) :
    (/\ IsSome(req[r].file)
     /\ IsSome(b.max_upload_size)
     /\ size(Val(req[r].file)) > Val(b.max_upload_size))
    => /\ NothingWritten(r)
       /\ (LookupFound(r) => req[r].status = 400)

C4_WitnessEmptyList ==
  \E r \in Uploads : \E b \in NamedBucket(r) :
    /\ b.allowed_mime_types = Some({})
    /\ Called(r, "createFileMetadata")

\* C5: an upload smaller than the minUploadSize its bucket sets is rejected
\* before any record is created or any object is written.
C5_UndersizeRejected ==
  \A r \in Uploads : \A b \in NamedBucket(r) :
    (/\ IsSome(req[r].file)
     /\ IsSome(b.min_upload_size)
     /\ size(Val(req[r].file)) < Val(b.min_upload_size))
    => /\ NothingWritten(r)
       /\ (LookupFound(r) => req[r].status = 400)

\* the record an upload created is in the metadata store
RecordOf(key) == { f \in files : f.id = key }

\* a delete request removed the record with that id
DeletedByRequest(key) ==
  \E d \in Deletes : \E i \in Calls(d, "deleteFileMetadata") :
    req[d].calls[i].key = key /\ Succeeded(req[d].calls[i])

\* C6: when the object-store put of an upload fails, the upload issues no
\* confirmation update, ends with an error and does not delete the record;
\* the record it created has isUploaded = false for as long as it exists.
C6_FailedPutLeavesPending ==
  \A r \in Uploads : \A i \in Calls(r, "putObject") :
    ~req[r].calls[i].ok =>
      /\ ~Called(r, "updateFileMetadata")
      /\ ~Called(r, "deleteFileMetadata")
      /\ req[r].pc = "done" /\ req[r].status = 500
      /\ \A f \in RecordOf(req[r].calls[i].key) : ~f.is_uploaded
      /\ RecordOf(req[r].calls[i].key) # {} \/ DeletedByRequest(req[r].calls[i].key)

\* a failed put whose pending record outlives the upload
C6_Witness ==
  \E r \in Uploads : \E i \in Calls(r, "putObject") :
    /\ ~req[r].calls[i].ok
    /\ req[r].pc = "done"
    /\ \E f \in RecordOf(req[r].calls[i].key) : ~f.is_uploaded
    /\ \A q \in Req : req[q].pc = "done"

\* C7: the failure of a step aborts the steps after it and ends the request
\* with an error: a store call that failed, or that found no row where one
\* was needed, is the last call of its request, and the response is no success.
C7_FailureAborts ==
  \A r \in Req : \A i \in DOMAIN req[r].calls :
    ~Succeeded(req[r].calls[i]) =>
      /\ i = Len(req[r].calls)
      /\ req[r].pc = "done"
      /\ req[r].status >= 400
      /\ req[r].error # "none"
      /\ req[r].body = None

\* a delete whose metadata deletion found no visible row, the row still there
C7_Witness ==
  \E r \in Deletes :
    /\ req[r].calls # << >>
    /\ LET last == req[r].calls[Len(req[r].calls)]
       IN /\ last.op = "deleteFileMetadata"
          /\ ~Succeeded(last)
          /\ RecordOf(last.key) # {}
    /\ req[r].status = 404

\* C8: every object in the object store has a record whose id is the object's
\* key, in every state in which no delete is between its two deletions and
\* no object deletion has failed.
C8_NoUndetectableOrphan ==
  (\A r \in Deletes :
     /\ req[r].pc # "deleteObject"
     /\ \A i \in Calls(r, "removeObject") : req[r].calls[i].ok)
  => \A o \in objects : RecordOf(o.key) # {}

\* C9: a delete request without a user id ends with Forbidden (403) and has
\* issued no call to the metadata store or the object store.
C9_AnonymousDeleteForbidden ==
  \A r \in Deletes :
    req[r].hasuraUserId = Undefined =>
      /\ req[r].pc = "done"
      /\ req[r].status = 403
      /\ req[r].error = ForbiddenException
      /\ req[r].calls = << >>
      /\ req[r].fileMetadata = None

\* an anonymous delete of a confirmed record, refused, the record and its
\* object in place
C9_Witness ==
  \E r \in Deletes : \E f \in files :
    /\ req[r].hasuraUserId = Undefined
    /\ req[r].status = 403
    /\ req[r].fileId = f.id
    /\ f.is_uploaded
    /\ ObjectsOf(f) # {}

\* C10: a delete attempts the metadata deletion before the object deletion and
\* issues the object deletion only after the metadata deletion succeeded, so
\* the record is gone whenever the object deletion is issued; an object
\* deletion that fails ends the request with an error, the record gone and
\* the object still in the store.
C10_MetadataBeforeObject ==
  \A r \in Deletes : \A i \in Calls(r, "removeObject") :
    LET c == req[r].calls
    IN /\ \E k \in Calls(r, "deleteFileMetadata") : k < i /\ Succeeded(c[k])
       /\ RecordOf(req[r].fileId) = {}
       /\ c[i].key = req[r].fileId
       /\ ~c[i].ok =>
            /\ req[r].pc = "done" /\ req[r].status = 500
            /\ c[i].found =>
                 \E o \in objects : o.key = c[i].key /\ o.bucket = c[i].bucket

\* a delete whose object deletion failed: record gone, object left behind
C10_Witness ==
  \E r \in Deletes : \E i \in Calls(r, "removeObject") :
    /\ ~req[r].calls[i].ok
    /\ req[r].calls[i].found
    /\ RecordOf(req[r].fileId) = {}
    /\ \E o \in objects : o.key = req[r].fileId

\* the deletes that repeat a delete answered with success: under NextStored,
\* those of every request but the first
Repeats == { r \in Deletes : r # 1 }

\* the store calls of r that reached the object store
MinioCalls(r) == { i \in DOMAIN req[r].calls : req[r].calls[i].svc = "minio" }

\* the record lookup of r was answered (with a row or with none)
LookupAnswered(r) ==
  \E i \in Calls(r, "getFileMetadata") : req[r].calls[i].ok

\* C11: a delete of a file id that the same user's earlier delete was answered
\* for with success ends with NotFound (404), not with an internal error, and
\* issues neither a metadata deletion nor an object-store call.
C11_SecondDeleteNotFound ==
  \A r \in Repeats :
    /\ ~Called(r, "deleteFileMetadata")
    /\ MinioCalls(r) = {}
    /\ LookupAnswered(r) =>
         /\ req[r].pc = "done"
         /\ req[r].status = 404
         /\ req[r].error = NotFoundException

\* the repeated delete answered 404 after the first removed record and object
C11_Witness ==
  \E r \in Repeats :
    /\ req[r].status = 404
    /\ req[1].status = 200
    /\ req[1].fileId = StoredRecord.id
    /\ req[r].fileId = StoredRecord.id
    /\ files = {} /\ objects = {}

\* the objects stored under a key, in any bucket
ObjectsAt(key) == { o \in objects : o.key = key }

\* C12: once a delete of a file id was answered with success, no state holds
\* a record with that id or an object under that key, whatever else runs
\* beside it, an upload between its record creation and its put included.
C12_DeletedStaysDeleted ==
  \A d \in Deletes :
    req[d].status = 200 =>
      /\ RecordOf(req[d].fileId) = {}
      /\ ObjectsAt(req[d].fileId) = {}

Presigns == { r \in Req : req[r].kind = "presign" }

\* the record lookup of r was answered with no visible row
LookupEmpty(r) ==
  \E i \in Calls(r, "getFileMetadata") :
    req[r].calls[i].ok /\ ~req[r].calls[i].found

\* what the caller sees of a request
Outcome(r) == << req[r].status, req[r].error, req[r].message, req[r].body >>

\* C13: a download, delete or presign whose record lookup is answered with no
\* visible row ends with NotFound (404) and reaches the object store with no
\* call; requests of one kind end alike whether the row is absent or hidden.
C13_NoVisibleRowIsNotFound ==
  /\ \A r \in Downloads \cup Deletes \cup Presigns :
       LookupEmpty(r) =>
         /\ req[r].pc = "done"
         /\ req[r].status = 404
         /\ req[r].error = NotFoundException
         /\ Len(req[r].calls) = 1
         /\ MinioCalls(r) = {}
  /\ \A r1, r2 \in Req :
       (req[r1].kind = req[r2].kind /\ LookupEmpty(r1) /\ LookupEmpty(r2))
       => Outcome(r1) = Outcome(r2)

\* two downloads answered 404, one of an id no record has, one of the stored
\* record while the metadata store holds it
C13_Witness ==
  \E r1, r2 \in Downloads :
    /\ req[r1].status = 404 /\ req[r2].status = 404
    /\ RecordOf(req[r1].fileId) = {}
    /\ req[r2].fileId = StoredRecord.id
    /\ StoredRecord \in files

\* C14: a download that finds the record and then meets no object under the
\* record's key ends with NotFound (404), told apart from the NotFound of a
\* record lookup, and not with an internal error.
C14_MissingObjectIsNotFound ==
  \A r \in Downloads : \A i \in Calls(r, "getObject") :
    (req[r].calls[i].ok /\ ~req[r].calls[i].found) =>
      /\ req[r].status = 404
      /\ req[r].error = NotFoundException
      /\ req[r].message # "File not found"

\* no store call of r failed
NoStoreFailure(r) == \A i \in DOMAIN req[r].calls : req[r].calls[i].ok

\* C16: a download that runs beside a delete of the same file id, no store
\* call of either failing, ends with success (200) or NotFound (404), never
\* with an internal error (500).
C16_DownloadRacingDelete ==
  \A r \in Downloads : \A d \in Deletes :
    (/\ req[r].fileId = req[d].fileId
     /\ req[r].pc = "done"
     /\ NoStoreFailure(r) /\ NoStoreFailure(d))
    => req[r].status \in { 200, 404 }

\* C15: a download of the file id a successful upload of payload B was
\* answered with, no delete in between, reads the bucket and key the upload
\* wrote; unless a store call fails or the row is hidden it succeeds, and it
\* returns exactly B with Content-Length = len(B), Content-Type = the uploaded
\* MIME type and Content-Disposition carrying the uploaded file name.
C15_RoundTrip ==
  \A u \in Uploads : \A d \in Downloads :
    (req[u].status = 201 /\ req[d].fileId = Val(req[u].body).updatedFileMetadata.id) =>
      LET file == Val(req[u].file)
      IN /\ \A i \in Calls(d, "getObject") : \E k \in Calls(u, "putObject") :
              /\ req[d].calls[i].bucket = req[u].calls[k].bucket
              /\ req[d].calls[i].key = req[u].calls[k].key
              /\ req[d].calls[i].key = req[d].fileId
         /\ (req[d].pc = "done" /\ NoStoreFailure(d) /\ ~LookupEmpty(d))
              => req[d].status = 200
         /\ req[d].status = 200 =>
              /\ Val(req[d].body).data = file.buffer
              /\ Val(req[d].body).contentLength = Len(file.buffer)
              /\ Val(req[d].body).contentType = file.mimetype
              /\ Val(req[d].body).contentDisposition
                   = contentDisposition(file.originalname)

\* b.png, two bytes unlike the stored file's, uploaded to the media bucket and
\* downloaded again
C15_Witness ==
  \E u \in Uploads : \E d \in Downloads :
    /\ req[u].status = 201
    /\ req[d].status = 200
    /\ req[d].fileId = Val(req[u].body).updatedFileMetadata.id
    /\ Val(req[u].file).buffer = << 1, 0 >>
    /\ Val(req[u].file).originalname = "b.png"
    /\ req[u].bucketName = StoredBucket.name
    /\ Val(req[d].body).data = << 1, 0 >>

\* ------------------------------------------------------ claims: AuthGuard
\* the requests the guard has seen, and those it admitted
Guarded == { r \in Req : req[r].guard.pc # "none" }
Admitted == { r \in Req : req[r].guard.pc = "admitted" }

\* the strategies that ran for r, and those that authenticated
TriedOf(r, strategy) ==
  { i \in DOMAIN req[r].guard.tried : req[r].guard.tried[i].strategy = strategy }
Authenticating(r) ==
  { i \in DOMAIN req[r].guard.tried : req[r].guard.tried[i].threw = "none" }

\* the identity attached to r
IdentityOf(r) ==
  [ hasuraUserId |-> req[r].hasuraUserId, hasuraRoles |-> req[r].hasuraRoles,
    isAuthenticated |-> req[r].isAuthenticated ]

\* the identity no strategy authenticated
IsAnonymous(r) ==
  IdentityOf(r) = [ hasuraUserId |-> Undefined, hasuraRoles |-> << "anonymous" >>,
                    isAuthenticated |-> Some(FALSE) ]

\* C17: the guard fails or rejects no request, whatever its token, the
\* identity service's answer and the configuration: no exception leaves it,
\* it is done once the last strategy ran, and an admitted request carries one
\* identity, that of the one strategy that authenticated or the anonymous one.
C17_ResolverNeverRejects ==
  \A r \in Guarded :
    /\ req[r].guard.pc \in { "session", "admitted" }
    /\ req[r].message # "guard"
    /\ req[r].guard.pc = "session" =>
         /\ TriedOf(r, "session") = {}
         /\ req[r].isAuthenticated = None
         /\ req[r].pc = "idle"
    /\ TriedOf(r, "session") # {} => req[r].guard.pc = "admitted"
    /\ req[r].guard.pc = "admitted" =>
         /\ req[r].isAuthenticated # None
         /\ Cardinality(Authenticating(r)) = IF Val(req[r].isAuthenticated) THEN 1 ELSE 0
         /\ Authenticating(r) = {} => IsAnonymous(r)

\* a request with a token that does not verify, no secret configured and the
\* identity service unreachable, admitted as anonymous
C17_Witness ==
  \E r \in Admitted :
    /\ req[r].guard.headers.scheme = "Bearer"
    /\ ~req[r].guard.hasuraJwtSecret
    /\ req[r].guard.answer # None
    /\ ~Val(req[r].guard.answer).reachable
    /\ Len(req[r].guard.tried) = 2
    /\ IsAnonymous(r)

\* the request bears a token that verifies under the configured secret
Verifies(r) ==
  /\ req[r].guard.headers.scheme = "Bearer"
  /\ req[r].guard.hasuraJwtSecret
  /\ req[r].guard.headers.token.signed
  /\ ~req[r].guard.headers.token.expired

\* C18: the strategies run in the order token, remote session, anonymous, the
\* first to authenticate winning: a token that is present and verifies gives
\* the identity of its claims and the identity service is not called; the
\* identity service is called only for a request whose token is absent or
\* does not verify, and only if its URL is configured; the anonymous identity
\* is attached only when neither authenticated.
C18_StrategyOrder ==
  \A r \in Guarded :
    /\ \A i, j \in DOMAIN req[r].guard.tried :
         (i < j) => (req[r].guard.tried[i].strategy = "token"
                     /\ req[r].guard.tried[j].strategy = "session")
    /\ Verifies(r) =>
         /\ req[r].guard.pc = "admitted"
         /\ TriedOf(r, "session") = {}
         /\ req[r].guard.answer = None
         /\ req[r].isAuthenticated = Some(TRUE)
    /\ (TriedOf(r, "session") # {} \/ req[r].guard.pc = "session") =>
         /\ ~Verifies(r)
         /\ req[r].guard.betterAuthApiUrl
    /\ (req[r].guard.pc = "admitted" /\ IsAnonymous(r)) => Authenticating(r) = {}

\* the request bears a token that fails verification: forged or expired
InvalidToken(r) ==
  /\ req[r].guard.headers.scheme = "Bearer"
  /\ ~req[r].guard.headers.token.signed \/ req[r].guard.headers.token.expired

\* the remote-session strategy authenticated r
SessionAuthenticated(r) ==
  \E i \in TriedOf(r, "session") : req[r].guard.tried[i].threw = "none"

\* C19: a request with an invalid bearer token that the remote-session
\* strategy does not authenticate is admitted with roles = ["anonymous"], no
\* user id and authenticated = false, and goes on to its handler: its upload
\* is refused for no lack of identity, and the record it creates has
\* uploaded_by_user_id null.
C19_InvalidTokenIsAnonymous ==
  \A r \in Guarded :
    (InvalidToken(r) /\ req[r].guard.pc # "session" /\ ~SessionAuthenticated(r)) =>
      /\ req[r].guard.pc = "admitted"
      /\ IsAnonymous(r)
      /\ req[r].status \notin { 401, 403 }
      /\ \A i \in Calls(r, "createFileMetadata") :
           /\ req[r].calls[i].role = "anonymous"
           /\ req[r].calls[i].user = Undefined
           /\ \A f \in RecordOf(req[r].calls[i].key) : f.uploaded_by_user_id = Undefined

\* a forged token, a 401 from the identity service, and the upload answered
\* 201 with a record no user owns
C19_Witness ==
  \E r \in Admitted :
    /\ InvalidToken(r)
    /\ req[r].guard.answer # None
    /\ Val(req[r].guard.answer).reachable /\ ~Val(req[r].guard.answer).ok
    /\ req[r].kind = "upload" /\ req[r].status = 201
    /\ \E f \in files : f.is_uploaded /\ f.uploaded_by_user_id = Undefined

\* the identity service answered 2xx with a user id and a role
SessionGranted(answer) ==
  /\ answer.reachable /\ answer.ok
  /\ answer.body # None
  /\ Val(answer.body).userId # Undefined
  /\ Val(answer.body).role # Undefined

\* C20: the remote-session strategy authenticates, as the returned user id with
\* roles = [the returned role], exactly when the identity service answers 2xx
\* with both a user id and a role; after a non-2xx answer, a body without
\* either field, a body that does not parse or a connection error the request
\* is admitted as anonymous and nothing is raised.
C20_RemoteSessionRule ==
  \A r \in Guarded :
    req[r].guard.answer # None =>
      LET answer == Val(req[r].guard.answer)
      IN /\ req[r].guard.pc = "admitted"
         /\ req[r].message # "guard"
         /\ SessionGranted(answer) <=> SessionAuthenticated(r)
         /\ IF SessionGranted(answer)
            THEN IdentityOf(r) = [ hasuraUserId |-> Val(answer.body).userId,
                                   hasuraRoles |-> << Val(answer.body).role >>,
                                   isAuthenticated |-> Some(TRUE) ]
            ELSE IsAnonymous(r)

\* an expired token, then the identity service's 200 with user id and role:
\* admitted as that user
C20_Witness ==
  \E r \in Admitted :
    /\ InvalidToken(r)
    /\ req[r].guard.answer # None
    /\ SessionGranted(Val(req[r].guard.answer))
    /\ req[r].hasuraUserId = "u2"
    /\ req[r].hasuraRoles = << "user" >>
    /\ req[r].isAuthenticated = Some(TRUE)

\* C21: a missing required setting is fatal at startup: a process that serves
\* a request has its object-store endpoint and credentials, its default
\* bucket, its metadata-store endpoint and secret and its token-signing
\* secret; no request meets a missing signing secret.
C21_MissingSettingIsFatal ==
  \A r \in Guarded :
    /\ (Settings \ { "BETTER_AUTH_API_URL" }) \subseteq req[r].guard.env
    /\ req[r].guard.hasuraJwtSecret
    /\ \A i \in TriedOf(r, "token") :
         req[r].guard.tried[i].threw # InternalServerErrorException

\* the metadata-store calls of r
HasuraCalls(r) == { i \in DOMAIN req[r].calls : req[r].calls[i].svc = "hasura" }

\* C22: every metadata-store call of a request (bucket lookup, record
\* creation, confirmation update, record fetch, record deletion) carries the
\* user id and the primary role of the identity attached to that request; the
\* confirmation update of a user's upload is not sent as role anonymous.
C22_ActorForwarded ==
  \A r \in Req : \A i \in HasuraCalls(r) :
    /\ req[r].calls[i].user = req[r].hasuraUserId
    /\ req[r].calls[i].role = IF req[r].hasuraRoles # << >>
                              THEN Head(req[r].hasuraRoles) ELSE "anonymous"

C23_UploadReturnsFinalRecord ==
  \A r \in Uploads :
    req[r].status = 201 =>
      LET m == Val(req[r].body).updatedFileMetadata
          file == Val(req[r].file)
          c == req[r].calls
      IN /\ \E k \in Calls(r, "createFileMetadata") : Succeeded(c[k]) /\ c[k].key = m.id
         /\ \E k \in Calls(r, "putObject") : Succeeded(c[k]) /\ c[k].key = m.id
         /\ m.is_uploaded
         /\ m.name = file.originalname
         /\ m.size = Len(file.buffer)
         /\ m.mime_type = file.mimetype
         /\ m.etag = Val(req[r].uploadedInfo).etag
         /\ m.etag = Some(ETag(file.buffer))
         /\ m \in files

\* an image of two bytes uploaded to the media bucket and answered 201
C23_Witness ==
  \E r \in Uploads :
    /\ req[r].status = 201
    /\ Val(req[r].file).mimetype = "image/png"
    /\ Len(Val(req[r].file).buffer) = 2
    /\ Val(req[r].body).updatedFileMetadata.size = 2
    /\ req[r].bucketName = "media"

\* C24: every upload that passes validation creates a record whose id no
\* other record has and writes its object under that id: two uploads of one
\* file name to one bucket, one after the other or side by side, leave two
\* records and two objects, and neither writes under the other's key.
C24_UploadsDoNotCollide ==
  /\ \A f1, f2 \in files : f1.id = f2.id => f1 = f2
  /\ \A r \in Uploads :
       /\ Cardinality(Calls(r, "createFileMetadata")) <= 1
       /\ Called(r, "getBucketByName") /\ req[r].pc \notin { "getBucket", "done" }
            => Called(r, "createFileMetadata") \/ req[r].pc = "create"
       /\ \A i \in Calls(r, "putObject") : \E k \in Calls(r, "createFileMetadata") :
            req[r].calls[i].key = req[r].calls[k].key
  /\ \A r1, r2 \in Uploads :
       r1 # r2 =>
         /\ \A i \in Calls(r1, "createFileMetadata"), k \in Calls(r2, "createFileMetadata") :
              (Succeeded(req[r1].calls[i]) /\ Succeeded(req[r2].calls[k]))
              => req[r1].calls[i].key # req[r2].calls[k].key
         /\ \A i \in Calls(r1, "putObject"), k \in Calls(r2, "putObject") :
              req[r1].calls[i].key # req[r2].calls[k].key
         /\ (req[r1].status = 201 /\ req[r2].status = 201 /\ Deletes = {}) =>
              LET m1 == Val(req[r1].body).updatedFileMetadata
                  m2 == Val(req[r2].body).updatedFileMetadata
              IN /\ m1.id # m2.id
                 /\ { m1, m2 } \subseteq files
                 /\ ObjectsOf(m1) # {} /\ ObjectsOf(m2) # {}
                 /\ ObjectsOf(m1) \cap ObjectsOf(m2) = {}

\* two uploads of a.txt to the default bucket, both answered 201: two records,
\* two objects
C24_Witness ==
  \E r1, r2 \in Uploads :
    /\ r1 # r2
    /\ req[r1].status = 201 /\ req[r2].status = 201
    /\ req[r1].bucketName = req[r2].bucketName
    /\ Val(req[r1].file).originalname = Val(req[r2].file).originalname
    /\ Cardinality(files) = 2
    /\ Cardinality(objects) = 2

\* C25: no step of an upload, download or delete changes the name, the
\* bucket id or the owner of a record that exists before and after it; the
\* confirmation update leaves a record that differs from the created one in
\* isUploaded, size, mimeType and etag at most.
C25_CreationFieldsFrozen ==
  [][ \A f \in files : \A g \in files' :
        g.id = f.id =>
          /\ g.name = f.name
          /\ g.bucket_id = f.bucket_id
          /\ g.uploaded_by_user_id = f.uploaded_by_user_id ]_vars

\* the record of u1's upload after its confirmation update, with the name,
\* bucket and owner it was created with
C25_Witness ==
  \E r \in Uploads : \E f \in files :
    /\ req[r].status = 201
    /\ f.id = Val(req[r].body).updatedFileMetadata.id
    /\ f.is_uploaded
    /\ req[r].hasuraUserId = "u1"
    /\ f.uploaded_by_user_id = "u1"
    /\ f.name = Val(req[r].file).originalname
    /\ f.bucket_id = Val(req[r].bucketMetadata).id

\* C26: an upload that names a bucket without a row in the metadata store
\* ends with a bucket-not-found error, told apart from the failure of a store
\* call; no record has been created and the object store has received no put.
C26_UnknownBucketRejected ==
  \A r \in Uploads :
    (/\ NamedBucket(r) = {}
     /\ \E i \in Calls(r, "getBucketByName") : req[r].calls[i].ok)
    => /\ req[r].pc = "done"
       /\ req[r].status >= 400
       /\ NothingWritten(r)
       /\ req[r].message # "Failed to upload file"

\* C27: a failing request ends with the status of its failure kind: 500
\* exactly when one of its store calls failed, 403 exactly for a delete
\* without a user id, 404 exactly when no call failed and a record operation
\* was answered with no row, and 400 otherwise (missing file, policy
\* violation), which is met after lookups only.
C27_StatusByFailureKind ==
  \A r \in Req :
    (req[r].pc = "done" /\ req[r].status >= 400) =>
      LET calls == req[r].calls
          storeFailed == ~NoStoreFailure(r)
          noRecord == \E i \in DOMAIN calls :
                        /\ calls[i].ok /\ ~calls[i].found
                        /\ calls[i].op \in { "getFileMetadata", "deleteFileMetadata",
                                             "updateFileMetadata" }
          anonymousDelete == req[r].kind = "delete" /\ NoUserId(req[r].hasuraUserId)
      IN /\ req[r].status \in { 400, 403, 404, 500 }
         /\ req[r].status = 500 <=> storeFailed
         /\ req[r].status = 403 <=> anonymousDelete
         /\ req[r].status = 404 <=> (~storeFailed /\ noRecord)
         /\ req[r].status = 400 =>
              \A i \in DOMAIN calls : calls[i].op \in { "getBucketByName", "getFileMetadata" }

\* C28 as stated: a presigned URL is signed for the record id in the record's
\* bucket, with the expiry query value for lifetime when one is given and the
\* download_expiration of that bucket otherwise.
C28_LifetimeFromQueryOrBucket ==
  \A r \in Presigns :
    (req[r].pc = "done" /\ req[r].status = 200) =>
      LET f == CHOOSE x \in files : x.id = req[r].fileId
          b == CHOOSE x \in buckets : x.id = f.bucket_id
          lifetime == IF req[r].expiry = "60" THEN Some(60)
                      ELSE IF req[r].expiry = "soon" THEN None
                      ELSE b.download_expiration
      IN Val(req[r].body).url = << "url", b.name, req[r].fileId, lifetime >>

\* C28, amended: a presigned URL is signed for the record id in the record's
\* bucket; its lifetime is the integer parsed from the expiry query value
\* when a non-empty one is given, otherwise the download_expiration of that
\* bucket when it is set and not zero, otherwise 300 seconds.
C28_LifetimeFromQueryBucketOrDefault ==
  \A r \in Presigns :
    (req[r].pc = "done" /\ req[r].status = 200) =>
      LET f == CHOOSE x \in files : x.id = req[r].fileId
          b == CHOOSE x \in buckets : x.id = f.bucket_id
          lifetime == IF req[r].expiry = "60" THEN Some(60)
                      ELSE IF req[r].expiry = "soon" THEN None
                      ELSE IF b.download_expiration \in { None, Some(0) } THEN Some(300)
                      ELSE b.download_expiration
      IN /\ Val(req[r].body).url = << "url", b.name, req[r].fileId, lifetime >>
         /\ \A i \in Calls(r, "presignedGetObject") :
              /\ req[r].calls[i].bucket = b.name
              /\ req[r].calls[i].key = req[r].fileId

\* witness for C28: a URL was signed with the lifetime of the query although
\* the bucket has one of its own
C28_Witness ==
  \E r \in Presigns :
    /\ req[r].pc = "done" /\ req[r].status = 200
    /\ req[r].expiry = "60"
    /\ \E b \in buckets : b.name = StoredBucket.name /\ b.download_expiration = Some(120)
    /\ Val(req[r].body).url = << "url", StoredBucket.name, req[r].fileId, Some(60) >>

\* C29 as stated: MinioService.uploadFile called without a bucket name calls
\* putObject exactly once, on the default bucket with the object name and
\* payload it was handed, and returns the store's result; if the put fails
\* it raises 'Failed to upload file: ' followed by the store's message and
\* returns nothing.
C29_PutOnceOnDefaultBucket ==
  \A r \in Req :
    (req[r].kind = "minioUpload" /\ req[r].pc = "done" /\ req[r].bucketName = Undefined) =>
      LET calls == req[r].calls
          puts == Calls(r, "putObject")
          file == Val(req[r].file)
      IN /\ Cardinality(puts) = 1
         /\ \A i \in puts :
              /\ calls[i].bucket = DefaultBucketName /\ calls[i].key = req[r].fileId
              /\ calls[i].ok =>
                   /\ req[r].error = "none"
                   /\ req[r].body = Some([ etag |-> Some(ETag(file.buffer)) ])
              /\ ~calls[i].ok =>
                   /\ req[r].body = None
                   /\ req[r].message \in { "Failed to upload file: " \o m : m \in StoreMessages }

\* C29, amended: MinioService.uploadFile called without a bucket name first
\* makes sure the default bucket exists; when that fails it raises 'MinIO
\* bucket initialization failed: ' followed by the store's message and puts
\* nothing.  Otherwise it calls putObject exactly once, on the default bucket
\* with the object name and payload it was handed, and returns the store's
\* result; if the put fails it raises 'Failed to upload file: ' followed by
\* the store's message and returns nothing.
C29_PutOnceAfterBucketEnsured ==
  \A r \in Req :
    (req[r].kind = "minioUpload" /\ req[r].pc = "done" /\ req[r].bucketName = Undefined) =>
      LET calls == req[r].calls
          puts == Calls(r, "putObject")
          file == Val(req[r].file)
          ensured == \A i \in Calls(r, "bucketExists") \cup Calls(r, "makeBucket") : calls[i].ok
          written == { o \in objects : o.bucket = DefaultBucketName /\ o.key = req[r].fileId }
      IN /\ \A i \in DOMAIN calls : calls[i].bucket = DefaultBucketName
         /\ ~ensured =>
              /\ puts = {} /\ objects = {} /\ req[r].body = None
              /\ req[r].error = InternalServerErrorException
              /\ req[r].message \in
                   { "MinIO bucket initialization failed: " \o m : m \in StoreMessages }
         /\ ensured =>
              /\ Cardinality(puts) = 1
              /\ DefaultBucketName \in minioBuckets
              /\ \A i \in puts :
                   /\ calls[i].key = req[r].fileId
                   /\ calls[i].ok =>
                        /\ req[r].error = "none"
                        /\ req[r].body = Some([ etag |-> Some(ETag(file.buffer)) ])
                        /\ objects = written
                        /\ \A o \in written :
                             /\ o.data = file.buffer /\ o.size = size(file)
                             /\ o.contentType = file.mimetype
                   /\ ~calls[i].ok =>
                        /\ req[r].body = None /\ objects = {}
                        /\ req[r].error = InternalServerErrorException
                        /\ req[r].message \in
                             { "Failed to upload file: " \o m : m \in StoreMessages }

\* witness for C29: a call without a bucket name whose put on the default
\* bucket failed and that raised the prefixed message of the store
C29_Witness ==
  \E r \in Req :
    /\ req[r].kind = "minioUpload" /\ req[r].pc = "done" /\ req[r].bucketName = Undefined
    /\ \E i \in Calls(r, "putObject") :
         ~req[r].calls[i].ok /\ req[r].calls[i].bucket = DefaultBucketName
    /\ req[r].message = "Failed to upload file: MinIO upload error"
    /\ req[r].body = None

\* C31: an upload that both exceeds the maxUploadSize of its bucket and has
\* a MIME type outside a non-empty allowedMimeTypes is refused for its size;
\* the MIME violation is never the one reported.
C31_SizeRuleFirst ==
  \A r \in Uploads : \A b \in NamedBucket(r) :
    (/\ LookupFound(r)
     /\ IsSome(b.max_upload_size)
     /\ size(Val(req[r].file)) > Val(b.max_upload_size)
     /\ IsSome(b.allowed_mime_types)
     /\ Val(b.allowed_mime_types) # {}
     /\ Val(req[r].file).mimetype \notin Val(b.allowed_mime_types))
    => /\ req[r].status = 400
       /\ req[r].message = "File size exceeds maximum"

\* C32: a bucket whose maxUploadSize is 0 refuses every upload of one byte or
\* more with 'size exceeds maximum'; no record is created and no object
\* written.
C32_ZeroBoundRejects ==
  \A r \in Uploads : \A b \in NamedBucket(r) :
    (/\ LookupFound(r)
     /\ b.max_upload_size = Some(0)
     /\ size(Val(req[r].file)) >= 1)
    => /\ req[r].status = 400
       /\ req[r].message = "File size exceeds maximum"
       /\ NothingWritten(r)

\* C33: of the delete requests for one file id at most one is answered with
\* success, the metadata row is deleted by at most one of them, and a request
\* that finds the row gone, at its lookup or at its deletion, ends with 404.
C33_OneDeleteWins ==
  \A k \in FileIds :
    LET racers == { d \in Deletes : req[d].fileId = k }
        removed == { << d, i >> \in racers \X (1 .. 4) :
                       /\ i \in Calls(d, "deleteFileMetadata")
                       /\ req[d].calls[i].ok /\ req[d].calls[i].found }
    IN /\ Cardinality({ d \in racers : req[d].status = 200 }) <= 1
       /\ Cardinality(removed) <= 1
       /\ \A d \in racers :
            (/\ req[d].pc = "done"
             /\ \E i \in DOMAIN req[d].calls :
                  req[d].calls[i].ok /\ ~req[d].calls[i].found
                  /\ req[d].calls[i].svc = "hasura")
            => req[d].status = 404

\* witness for C33: two deletes both saw the record; one was answered with
\* success and the other, finding the row gone at its deletion, with 404
C33_Witness ==
  \E d \in Deletes, e \in Deletes :
    /\ d # e /\ req[d].fileId = req[e].fileId
    /\ req[d].status = 200 /\ req[e].status = 404
    /\ \E i \in Calls(e, "getFileMetadata") : req[e].calls[i].found
    /\ \E i \in Calls(e, "deleteFileMetadata") :
         req[e].calls[i].ok /\ ~req[e].calls[i].found
    /\ \E i \in Calls(d, "deleteFileMetadata") :
         req[d].calls[i].found /\ req[e].calls[1].ok
         /\ Len(req[e].calls) = 2

\* C34: a download streams bytes only for a record that was confirmed when
\* it was fetched.  A record never returns to pending, so one that is
\* pending now was pending when fetched: no download that was answered with
\* the object has a record with isUploaded = false.
C34_PendingNeverServed ==
  \A r \in Downloads :
    (req[r].pc = "done" /\ req[r].status = 200) =>
      \A f \in files : f.id = req[r].fileId => f.is_uploaded

\* C35: an upload is answered with success only if its confirmation update
\* found the record; an upload whose update finds no row (a concurrent delete
\* removed it) ends with not found, no confirmed record with its id exists,
\* and a record a delete removed is not in the metadata store again.
C35_LostRecordNotConfirmed ==
  /\ \A r \in Uploads :
       /\ req[r].status = 201 =>
            \E i \in Calls(r, "updateFileMetadata") :
              req[r].calls[i].ok /\ req[r].calls[i].found
       /\ \A i \in Calls(r, "updateFileMetadata") :
            (req[r].calls[i].ok /\ ~req[r].calls[i].found) =>
              /\ req[r].pc = "done"
              /\ req[r].error = NotFoundException /\ req[r].status = 404
              /\ \A f \in RecordOf(req[r].calls[i].key) : ~f.is_uploaded
  /\ \A k \in FileIds : DeletedByRequest(k) => RecordOf(k) = {}

\* witness for C35: a delete removed the record of an upload after its put,
\* and the upload's confirmation, finding no row, ended with 404
C35_Witness ==
  \E r \in Uploads : \E i \in Calls(r, "updateFileMetadata") :
    /\ req[r].calls[i].ok /\ ~req[r].calls[i].found
    /\ DeletedByRequest(req[r].calls[i].key)
    /\ \E j \in Calls(r, "putObject") : req[r].calls[j].ok
    /\ req[r].status = 404
    /\ RecordOf(req[r].calls[i].key) = {}

\* C36: the check-then-create of the object-store bucket is safe under
\* concurrency: an upload that found the bucket missing and reaches its
\* make-bucket step after another upload has created the bucket does not
\* fail there, it goes on to its put.
C36_BucketRaceSafe ==
  [][ \A r \in Uploads :
        (/\ req[r].pc = "makeBucket"
         /\ req[r].bucketName \in minioBuckets
         /\ req'[r] # req[r])
        => req'[r].pc = "put" ]_vars

\* C37: every identity the guard attaches is well-formed: an authenticated
\* one has a user id and at least one role, an unauthenticated one has no
\* user id and the roles ["anonymous"].
C37_IdentityWellFormed ==
  \A r \in Admitted :
    /\ req[r].isAuthenticated \in { Some(TRUE), Some(FALSE) }
    /\ req[r].isAuthenticated = Some(TRUE) =>
         req[r].hasuraUserId # Undefined /\ Len(req[r].hasuraRoles) > 0
    /\ req[r].isAuthenticated = Some(FALSE) =>
         req[r].hasuraUserId = Undefined /\ req[r].hasuraRoles = << "anonymous" >>

\* C38: the object store is asked for a presigned URL only after the record
\* was answered to the caller and its bucket was found with presigned URLs
\* enabled; a request whose record is not visible ends with 404, one whose
\* bucket is not visible or has presigning disabled with 400, and neither
\* reaches the object store.
C38_PresignOnlyWhenAllowed ==
  \A r \in Presigns :
    LET calls == req[r].calls
        presigned == Calls(r, "presignedGetObject")
        enabled == \E b \in buckets : /\ IsSome(req[r].fileMetadata)
                                       /\ b.name = Val(req[r].fileMetadata).bucket.name
                                       /\ b.presigned_urls_enabled
        noRecord == \E j \in Calls(r, "getFileMetadata") : calls[j].ok /\ ~calls[j].found
        noBucket == \E k \in Calls(r, "getBucketByName") :
                      calls[k].ok /\ (~calls[k].found \/ ~enabled)
    IN /\ \A i \in presigned :
            /\ enabled
            /\ \E j \in Calls(r, "getFileMetadata"), k \in Calls(r, "getBucketByName") :
                 j < k /\ k < i /\ calls[j].found /\ calls[k].found
       /\ noRecord => req[r].status = 404 /\ req[r].pc = "done" /\ Len(calls) = 1
       /\ noBucket => req[r].status = 400 /\ req[r].pc = "done" /\ Len(calls) = 2
       /\ (noRecord \/ noBucket) => presigned = {}

\* witness for C38: a request for a visible record in a bucket that has
\* presigning disabled ended with 400 before any object-store call
C38_Witness ==
  \E r \in Presigns :
    /\ req[r].pc = "done" /\ req[r].status = 400
    /\ \E k \in Calls(r, "getBucketByName") : req[r].calls[k].found
    /\ \E b \in buckets : b.name = StoredBucket.name /\ ~b.presigned_urls_enabled
    /\ Calls(r, "presignedGetObject") = {}

\* C39: with every store call returning or failing, every request that
\* arrived reaches a terminal outcome, which is one success response or one
\* error response and is never replaced; a request in flight can take its
\* next step whatever the other requests do; and no request makes the same
\* store call twice.
C39_EveryRequestTerminates ==
  /\ \A r \in Req : (req[r].pc # "idle") ~> (req[r].pc = "done")
  /\ [](\A r \in Req :
          /\ req[r].pc \notin { "idle", "done" } => ENABLED Returns(r)
          /\ req[r].pc = "done" =>
               \/ req[r].status \in { 200, 201 } /\ req[r].error = "none" /\ IsSome(req[r].body)
               \/ req[r].status >= 400 /\ req[r].error # "none" /\ req[r].body = None
          /\ \A i \in DOMAIN req[r].calls, j \in DOMAIN req[r].calls :
               req[r].calls[i].op = req[r].calls[j].op => i = j)
  /\ [][ \A r \in Req : req[r].pc = "done" => req'[r] = req[r] ]_vars

\* witness for C39: an upload, with all six of its store calls behind it, and
\* another request have both reached their outcome
C39_Witness ==
  \E r \in Uploads, d \in Deletes \cup Presigns :
    /\ req[r].pc = "done" /\ Len(req[r].calls) = 6
    /\ req[d].pc = "done" /\ Len(req[d].calls) = 3

\* C40: ArticlesService.create returns and stores an article with a
\* generated id whose title and content are those of the article passed in.
C40_CreateKeepsTitleAndContent ==
  \A r \in Req :
    req[r].kind = "article" =>
      LET given == Val(req[r].article)
          created == Val(req[r].body)
      IN /\ created.id # given.id
         /\ created.title = given.title
         /\ created.content = given.content
         /\ \E i \in DOMAIN articles : articles[i] = created

====
